---- MODULE Spec2Model ----
(***************************************************************************)
(* Transcript engine of youtube-highlighter: format detection              *)
(* (app/transcript_formatter.py), parsing and segment validation           *)
(* (app/transcript.py).                                                    *)
(*                                                                         *)
(* Conventions.  A Python str is a sequence of one-character strings.      *)
(* Times are integers: plain numbers for validate_segments, milliseconds   *)
(* for parsed timestamps.  A confidence is an exact rational <<n, d>>.     *)
(***************************************************************************)
EXTENDS Integers, Sequences, FiniteSets, TLC

VARIABLES
    segments,   \* validate_segments: the argument
    cleaned,    \* validate_segments: the returned list
    again,      \* validate_segments applied to its own result
    vpc,        \* position of the validate_segments caller
    content,    \* detect_format: the argument
    detected,   \* detect_format: the returned (format, confidence)
    dpc,        \* position of the detect_format caller
    shape,      \* how the text at hand was put together
    measure,    \* line counts and confidences of the text at hand
    file,       \* parse: the file at the path (its text is content)
    ppc,        \* position of the parse caller
    parsed,     \* parse: the returned list
    raised,     \* parse: the exception that left it
    route,      \* parse: the parsers that ran, in order
    loaded,     \* the caller's list after its validate_segments call
    reading,    \* parse: what reading the file returned or raised, on the primary path
    token,      \* time parsers: the argument
    timed,      \* time parsers: what each of them returned or raised
    tpc,        \* position of the time parsers' caller
    as_format,  \* parse_to_segments: the format argument
    built,      \* parse_to_segments: the returned list
    fpc,        \* position of the parse_to_segments caller
    original,   \* segments_to_vtt: the argument
    youtube_patterns,   \* the formatter instance: self.youtube_patterns
    calls,      \* concurrent callers of the formatter: each one's call under way
    made,       \* concurrent callers: how many calls were begun
    alone,      \* what each call returns on a fresh formatter with no other call
    both,       \* the two WebVTT parsers on one text: what each of them returned
    epc         \* position of the caller of the two WebVTT parsers

vvars == <<segments, cleaned, again, vpc>>
pvars == <<file, ppc, parsed, raised, route, loaded, reading>>

dvars == <<content, detected, dpc, shape, measure>>

tvars == <<token, timed, tpc>>

fvars == <<as_format, built, fpc, original>>

cvars == <<youtube_patterns, calls, made, alone>>

evars == <<both, epc>>

vars == <<segments, cleaned, again, vpc, content, detected, dpc, shape, measure,
          file, ppc, parsed, raised, route, loaded, reading,
          token, timed, tpc, as_format, built, fpc, original,
          youtube_patterns, calls, made, alone, both, epc>>

(***************************************************************************)
(* str helpers                                                             *)
(***************************************************************************)
Whitespace == {" ", "\n", "\t"}

IsSpace(c) == c \in Whitespace

\* the least member of a non-empty set of integers
Least(S) == CHOOSE x \in S : \A y \in S : x <= y

\* the greatest member of a non-empty set of integers
Greatest(S) == CHOOSE x \in S : \A y \in S : y <= x

\* the first position from i on that holds no whitespace, Len(s) + 1 if none does
FirstInk(s, i) ==
    CHOOSE j \in i..(Len(s) + 1) :
        /\ j = Len(s) + 1 \/ ~IsSpace(s[j])
        /\ \A k \in i..(j - 1) : IsSpace(s[k])

\* the last position up to i that holds no whitespace, 0 if none does
LastInk(s, i) ==
    i - (CHOOSE n \in 0..i :
            /\ n = i \/ ~IsSpace(s[i - n])
            /\ \A k \in 0..(n - 1) : IsSpace(s[i - k]))

\* str.strip(): drop leading and trailing whitespace
Strip(s) == SubSeq(s, FirstInk(s, 1), LastInk(s, Len(s)))

\* the first position from i on that holds c, Len(s) + 1 if none does
IndexOf(s, c, i) ==
    LET at == {j \in i..Len(s) : s[j] = c}
    IN  IF at = {} THEN Len(s) + 1 ELSE Least(at)

\* the pieces of s[lo..hi] between the separators seps, each a pair <<first, last>>
\* of positions, no two of them overlapping; the piece is halved at the separator
\* nearest to its middle
RECURSIVE Cut(_, _, _, _)
Cut(s, seps, lo, hi) ==
    LET inside == {p \in seps : lo <= p[1] /\ p[2] <= hi}
        mid == (lo + hi) \div 2
        Off(p) == IF p[1] >= mid THEN p[1] - mid ELSE mid - p[1]
        m == CHOOSE p \in inside : \A q \in inside : Off(p) <= Off(q)
    IN  IF inside = {} THEN <<SubSeq(s, lo, hi)>>
        ELSE Cut(s, inside, lo, m[1] - 1) \o Cut(s, inside, m[2] + 1, hi)

\* str.split(c) for a one-character separator
SplitOn(s, c) == Cut(s, {<<i, i>> : i \in {j \in 1..Len(s) : s[j] = c}}, 1, Len(s))

\* sub in s
Contains(s, sub) ==
    \E i \in 1..(Len(s) - Len(sub) + 1) : SubSeq(s, i, i + Len(sub) - 1) = sub

\* s.startswith(prefix)
StartsWith(s, prefix) ==
    Len(s) >= Len(prefix) /\ SubSeq(s, 1, Len(prefix)) = prefix

\* s.replace(a, b) for one-character a and b
ReplaceChar(s, a, b) == [i \in 1..Len(s) |-> IF s[i] = a THEN b ELSE s[i]]

Digits == {"0", "1", "2", "3", "4", "5", "6", "7", "8", "9"}

\* str.isdigit()
IsDigitStr(s) == s # <<>> /\ \A i \in 1..Len(s) : s[i] \in Digits

\* [line.strip() for line in content.split('\n') if line.strip()]
StrippedLines(s) ==
    LET raw == SplitOn(s, "\n")
        stripped == [i \in 1..Len(raw) |-> Strip(raw[i])]
    IN  SelectSeq(stripped, LAMBDA l : l # <<>>)

\* the lists of a list, one after the other
RECURSIVE Flatten(_)
Flatten(seqs) ==
    IF Len(seqs) = 0 THEN <<>>
    ELSE IF Len(seqs) = 1 THEN seqs[1]
    ELSE LET half == Len(seqs) \div 2
         IN  Flatten(SubSeq(seqs, 1, half)) \o Flatten(SubSeq(seqs, half + 1, Len(seqs)))

\* sep.join(lines)
Join(lines, sep) ==
    Flatten([k \in 1..(2 * Len(lines) - 1) |->
                IF k % 2 = 1 THEN lines[(k + 1) \div 2] ELSE sep])

\* '\n'.join(lines)
JoinLines(lines) == Join(lines, <<"\n">>)

(***************************************************************************)
(* Regular expressions of the re module.  A pattern is a sequence of atoms; *)
(* an atom is a character class (negated or not) with a repetition range,  *)
(* hi < 0 standing for no upper limit.                                     *)
(***************************************************************************)
Cls(set, lo, hi) == [set |-> set, neg |-> FALSE, lo |-> lo, hi |-> hi]
NotCls(set, lo, hi) == [set |-> set, neg |-> TRUE, lo |-> lo, hi |-> hi]

D(lo, hi) == Cls(Digits, lo, hi)                \* \d{lo,hi}
Ch(c) == <<Cls({c}, 1, 1)>>                      \* a literal character
Lit(str) == [i \in 1..Len(str) |-> Cls({str[i]}, 1, 1)]
Spaces0 == <<Cls(Whitespace, 0, 0 - 1)>>         \* \s*
Spaces1 == <<Cls(Whitespace, 1, 0 - 1)>>         \* \s+
Any1 == <<NotCls({"\n"}, 1, 0 - 1)>>             \* .+

InClass(a, c) == IF a.neg THEN c \notin a.set ELSE c \in a.set

\* atoms that each take a fixed number of characters, as one atom that holds the
\* class of every character in turn
Word(pat) ==
    <<[word |-> Flatten([k \in 1..Len(pat) |-> [n \in 1..pat[k].lo |-> pat[k]]])]>>

IsWord(a) == "word" \in DOMAIN a

\* how many characters from position i on atom a can consume at most
Run(a, s, i) ==
    LET limit == IF a.hi < 0 \/ i + a.hi - 1 > Len(s) THEN Len(s) - i + 1 ELSE a.hi
    IN  CHOOSE n \in 0..limit :
            /\ n = limit \/ ~InClass(a, s[i + n])
            /\ \A m \in 0..(n - 1) : InClass(a, s[i + m])

\* how many characters atom a can take at position i
Widths(a, s, i) ==
    IF IsWord(a)
    THEN IF /\ i + Len(a.word) - 1 <= Len(s)
            /\ \A j \in 1..Len(a.word) : InClass(a.word[j], s[i + j - 1])
         THEN {Len(a.word)}
         ELSE {}
    ELSE a.lo..Run(a, s, i)

\* the positions at which a match of atoms k.. that starts at position i can end
RECURSIVE MatchEnds(_, _, _, _)
MatchEnds(pat, k, s, i) ==
    IF k > Len(pat) THEN {i}
    ELSE UNION {MatchEnds(pat, k + 1, s, i + n) : n \in Widths(pat[k], s, i)}

\* re.search(pat, s) is not None
Search(pat, s) == \E i \in 1..(Len(s) + 1) : MatchEnds(pat, 1, s, i) # {}

\* re.match('^' + pat + '$', s) is not None, for a one-line s
FullMatch(pat, s) == (Len(s) + 1) \in MatchEnds(pat, 1, s, 1)

(***************************************************************************)
(* Matching as re does it: greedy, giving characters back from the right.  *)
(***************************************************************************)
\* does a match of atoms k.. from position i exist (up to the end of s if anchored)
MatchesFrom(pat, k, s, i, anchored) ==
    IF anchored THEN (Len(s) + 1) \in MatchEnds(pat, k, s, i)
    ELSE MatchEnds(pat, k, s, i) # {}

\* how many characters each atom k.. consumes in the match re finds at i
RECURSIVE GreedyCounts(_, _, _, _, _)
GreedyCounts(pat, k, s, i, anchored) ==
    IF k > Len(pat) THEN <<>>
    ELSE LET ok == {n \in Widths(pat[k], s, i) : MatchesFrom(pat, k + 1, s, i + n, anchored)}
             n == CHOOSE x \in ok : \A y \in ok : y <= x
         IN  <<n>> \o GreedyCounts(pat, k + 1, s, i + n, anchored)

RECURSIVE SumTo(_, _)
SumTo(counts, k) == IF k = 0 THEN 0 ELSE counts[k] + SumTo(counts, k - 1)

\* the characters that atoms a..b took in a match at position i
Group(s, i, counts, a, b) ==
    SubSeq(s, i + SumTo(counts, a - 1), i + SumTo(counts, b) - 1)

\* the position behind the match re finds at i; 0 when there is none
MatchEnd(pat, s, i) ==
    IF MatchEnds(pat, 1, s, i) = {} THEN 0
    ELSE i + SumTo(GreedyCounts(pat, 1, s, i, FALSE), Len(pat))

\* re.sub(pat, '', s) for a pattern that matches no empty string
RECURSIVE RemoveAll(_, _, _)
RemoveAll(pat, s, i) ==
    LET found == {j \in i..Len(s) : MatchEnds(pat, 1, s, j) # {}}
        j == Least(found)
    IN  IF found = {} THEN SubSeq(s, i, Len(s))
        ELSE SubSeq(s, i, j - 1) \o RemoveAll(pat, s, MatchEnd(pat, s, j))

(***************************************************************************)
(* Numbers                                                                 *)
(***************************************************************************)
DigitValue(c) ==
    CASE c = "0" -> 0 [] c = "1" -> 1 [] c = "2" -> 2 [] c = "3" -> 3 [] c = "4" -> 4
      [] c = "5" -> 5 [] c = "6" -> 6 [] c = "7" -> 7 [] c = "8" -> 8 [] c = "9" -> 9

\* the value of a string of decimal digits (0 for the empty string)
RECURSIVE Decimal(_)
Decimal(s) ==
    IF s = <<>> THEN 0
    ELSE 10 * Decimal(SubSeq(s, 1, Len(s) - 1)) + DigitValue(s[Len(s)])

DigitChars == <<"0", "1", "2", "3", "4", "5", "6", "7", "8", "9">>

\* str(n) of an int n >= 0
RECURSIVE DecimalStr(_)
DecimalStr(n) ==
    IF n < 10 THEN <<DigitChars[n + 1]>>
    ELSE DecimalStr(n \div 10) \o <<DigitChars[(n % 10) + 1]>>

\* the outcome of a conversion: a value, or the ValueError it raises
Ok(v) == [ok |-> TRUE, v |-> v]
ValueError == [ok |-> FALSE, v |-> "ValueError"]
OSError == [ok |-> FALSE, v |-> "OSError"]

Sign(t) == IF t # <<>> /\ t[1] = "-" THEN 0 - 1 ELSE 1

\* a stripped number without its sign
Unsigned(t) == IF t # <<>> /\ t[1] \in {"+", "-"} THEN Tail(t) ELSE t

IntOfDigits(digits, sign) ==
    IF IsDigitStr(digits) THEN Ok(sign * Decimal(digits)) ELSE ValueError

\* int(s): optional sign and decimal digits, surrounding whitespace ignored
IntOf(s) == IntOfDigits(Unsigned(Strip(s)), Sign(Strip(s)))

\* the first three digits behind the decimal point, as milliseconds
Millis(frac) ==
    Decimal(SubSeq(frac \o <<"0", "0", "0">>, 1, 3))

FloatOfParts(whole, frac, sign) ==
    IF /\ \A i \in 1..Len(whole) : whole[i] \in Digits
       /\ \A i \in 1..Len(frac) : frac[i] \in Digits
       /\ whole # <<>> \/ frac # <<>>
    THEN Ok(sign * (1000 * Decimal(whole) + Millis(frac)))
    ELSE ValueError

FloatOfBody(body, dot, sign) ==
    FloatOfParts(SubSeq(body, 1, dot - 1), SubSeq(body, dot + 1, Len(body)), sign)

FloatOfStripped(t) == FloatOfBody(Unsigned(t), IndexOf(Unsigned(t), ".", 1), Sign(t))

\* float(s), in milliseconds: optional sign, digits, optional point and digits
\* (digits behind the third decimal are dropped)
FloatOf(s) == FloatOfStripped(Strip(s))

(***************************************************************************)
(* Floats.  A float that is no less than 0 is an IEEE 754 double: its whole *)
(* part and its binary places, the last of them a 1.  A sum or a quotient   *)
(* is the double nearest to the exact result, a tie going to the even one.  *)
(***************************************************************************)
\* 2^i mod m, for m <= 2000
RECURSIVE Pow2Mod(_, _)
Pow2Mod(i, m) ==
    IF i <= 30 THEN (2^i) % m ELSE (Pow2Mod(i - 30, m) * ((2^30) % m)) % m

\* the i-th binary place of f/1000, for 0 <= f < 1000
FracBit(f, i) == IF (f * Pow2Mod(i, 2000)) % 2000 >= 1000 THEN 1 ELSE 0

\* f/1000 has a binary place of 1 behind the i-th
FracRest(f, i) == (f * Pow2Mod(i, 1000)) % 1000 # 0

\* how many places at the end of bits are b
TrailingRun(bits, b) ==
    CHOOSE k \in 0..Len(bits) :
        /\ \A j \in (Len(bits) - k + 1)..Len(bits) : bits[j] = b
        /\ k = Len(bits) \/ bits[Len(bits) - k] # b

Double(n, bits) == [whole |-> n, bits |-> SubSeq(bits, 1, Len(bits) - TrailingRun(bits, 0))]

\* the position of the leading bit of n >= 1
Top(n) == CHOOSE p \in 0..29 : 2^p <= n /\ n < 2^(p + 1)

\* how many binary places the 53 bits of a double leave to a number with the
\* whole part n and the places Bit(1), Bit(2), ...
Places(n, Bit(_)) ==
    IF n > 0 THEN 52 - Top(n)
    ELSE 52 + (CHOOSE i \in 1..64 : Bit(i) = 1 /\ \A j \in 1..(i - 1) : Bit(j) = 0)

\* one more in the last place of kept, which ends in as many places of 1 as
\* ones says
Carried(n, kept, ones) ==
    IF ones = Len(kept) THEN Double(n + 1, <<>>)
    ELSE [whole |-> n,
          bits |-> [i \in 1..(Len(kept) - ones) |-> IF i = Len(kept) - ones THEN 1 ELSE kept[i]]]

RoundedKept(n, kept, up) ==
    IF up THEN Carried(n, kept, TrailingRun(kept, 1)) ELSE Double(n, kept)

\* the nearest double, k places being kept
RoundTo(n, Bit(_), Rest(_), k) ==
    RoundedKept(n, [i \in 1..k |-> Bit(i)],
                Bit(k + 1) = 1 /\ (Rest(k + 1) \/ Bit(k) = 1))

\* the double nearest to w + f/1000: float('w.f'), and f / 1000.0 when w = 0
OfDecimal(w, f) ==
    IF f = 0 THEN Double(w, <<>>)
    ELSE RoundTo(w, LAMBDA i : FracBit(f, i), LAMBDA i : FracRest(f, i),
                 Places(w, LAMBDA i : FracBit(f, i)))

PlaceOf(d, i) == IF i <= Len(d.bits) THEN d.bits[i] ELSE 0

\* w + d, w an int and d a double
Plus(w, d) ==
    IF d.bits = <<>> THEN Double(w + d.whole, <<>>)
    ELSE RoundTo(w + d.whole, LAMBDA i : PlaceOf(d, i), LAMBDA i : i < Len(d.bits),
                 Places(w + d.whole, LAMBDA i : PlaceOf(d, i)))

(***************************************************************************)
(* Splitting                                                               *)
(***************************************************************************)
\* the first position from i on where sub starts, Len(s) + 1 if nowhere
Find(s, sub, i) ==
    LET at == {j \in i..(Len(s) - Len(sub) + 1) : SubSeq(s, j, j + Len(sub) - 1) = sub}
    IN  IF at = {} THEN Len(s) + 1 ELSE Least(at)

\* s.split(sep) for a separator string
RECURSIVE SplitStrFrom(_, _, _)
SplitStrFrom(s, sep, i) ==
    LET j == Find(s, sep, i)
    IN  IF j > Len(s) THEN <<SubSeq(s, i, Len(s))>>
        ELSE <<SubSeq(s, i, j - 1)>> \o SplitStrFrom(s, sep, j + Len(sep))

SplitStr(s, sep) == SplitStrFrom(s, sep, 1)

\* the separators of re.split(r'\n\s*\n', s): each runs from the first to the
\* last newline of a stretch of whitespace that holds at least two newlines
BlankLines(s) ==
    LET newlines == {i \in 1..Len(s) : s[i] = "\n"}
        Blank(i, j) == \A k \in i..j : IsSpace(s[k])
        After(i) == {j \in newlines : i < j /\ Blank(i, j)}
        first == {i \in newlines : After(i) # {} /\ ~\E j \in newlines : j < i /\ Blank(j, i)}
    IN  {<<i, Greatest(After(i))>> : i \in first}

SplitBlocks(s) == Cut(s, BlankLines(s), 1, Len(s))

\* re.split(r'\s+', s)[0]
FirstToken(s) ==
    LET ws == {i \in 1..Len(s) : IsSpace(s[i])}
    IN  IF ws = {} THEN s
        ELSE SubSeq(s, 1, (CHOOSE i \in ws : \A j \in ws : i <= j) - 1)

\* ' '.join(lines)
JoinSpace(lines) == Join(lines, <<" ">>)

\* s.count(c)
CountChar(s, c) == Cardinality({i \in 1..Len(s) : s[i] = c})

(***************************************************************************)
(* Confidences: exact rationals <<numerator, denominator>> in lowest terms *)
(***************************************************************************)
RECURSIVE Gcd(_, _)
Gcd(a, b) == IF b = 0 THEN a ELSE Gcd(b, a % b)

Q(n, d) == LET g == Gcd(n, d) IN <<n \div g, d \div g>>

QAdd(a, b) == Q(a[1] * b[2] + b[1] * a[2], a[2] * b[2])
QMul(a, b) == Q(a[1] * b[1], a[2] * b[2])
QLt(a, b) == a[1] * b[2] < b[1] * a[2]
QLe(a, b) == a[1] * b[2] <= b[1] * a[2]
QMin(a, b) == IF QLe(a, b) THEN a ELSE b

Zero == Q(0, 1)
One == Q(1, 1)

(***************************************************************************)
(* TranscriptParser.validate_segments                                      *)
(***************************************************************************)
RequiredKeys == {"start", "end", "text"}

\* a validator that accepts zero-length ranges
KeepsEntryLax(segment) ==
    /\ RequiredKeys \subseteq DOMAIN segment
    /\ ~(segment.start < 0 \/ segment.end < 0)
    /\ ~(segment.start > segment.end)
    /\ Strip(segment.text) # <<>>

\* the per-entry checks of the loop body; an entry is a dict (a function on its keys)
KeepsEntry(segment) ==
    /\ RequiredKeys \subseteq DOMAIN segment
    /\ ~(segment.start < 0 \/ segment.end < 0)
    /\ ~(segment.start >= segment.end)
    /\ Strip(segment.text) # <<>>

\* the dict appended to cleaned_segments
CleanEntry(segment) ==
    [start |-> segment.start, end |-> segment.end, text |-> Strip(segment.text)]

RECURSIVE CleanLoopFrom(_)
CleanLoopFrom(segs) ==
    IF segs = <<>> THEN <<>>
    ELSE IF KeepsEntry(Head(segs))
         THEN <<CleanEntry(Head(segs))>> \o CleanLoopFrom(Tail(segs))
         ELSE CleanLoopFrom(Tail(segs))

\* a validator that also resolves overlaps: an entry starting before the end
\* of the entry kept last is dropped
RECURSIVE CleanLoopNoOverlapFrom(_, _)
CleanLoopNoOverlapFrom(segs, lastEnd) ==
    IF segs = <<>> THEN <<>>
    ELSE IF KeepsEntry(Head(segs)) /\ Head(segs).start >= lastEnd
         THEN <<CleanEntry(Head(segs))>> \o CleanLoopNoOverlapFrom(Tail(segs), Head(segs).end)
         ELSE CleanLoopNoOverlapFrom(Tail(segs), lastEnd)

CleanLoopNoOverlap(segs) == CleanLoopNoOverlapFrom(segs, 0)

\* the for loop of validate_segments: the kept entries, in input order
CleanLoop(segs) == CleanLoopFrom(segs)

\* an insertion that places x in front of the elements with an equal key
InsertUnstable(x, sorted) ==
    LET before == {i \in 1..Len(sorted) : sorted[i].start < x.start}
        k == Cardinality(before)
    IN  SubSeq(sorted, 1, k) \o <<x>> \o SubSeq(sorted, k + 1, Len(sorted))

\* place x behind every element whose key is <= its own: a stable insertion
InsertByStart(x, sorted) ==
    LET before == {i \in 1..Len(sorted) : sorted[i].start <= x.start}
        k == Cardinality(before)
    IN  SubSeq(sorted, 1, k) \o <<x>> \o SubSeq(sorted, k + 1, Len(sorted))

\* list.sort(key=lambda x: x['start']): ascending and stable
RECURSIVE SortByStartFrom(_, _)
SortByStartFrom(segs, acc) ==
    IF segs = <<>> THEN acc
    ELSE SortByStartFrom(Tail(segs), InsertByStart(Head(segs), acc))

SortByStart(segs) == SortByStartFrom(segs, <<>>)

validate_segments(segs) ==
    IF segs = <<>> THEN segs
    ELSE SortByStart(CleanLoop(segs))

(***************************************************************************)
(* Inputs of validate_segments                                             *)
(***************************************************************************)
MaxSegments == 3

Blank == <<" ">>
TextA == <<"a">>
TextB == <<" ", "b", " ">>

\* entries with all three fields: valid, zero-length, inverted, negative start
FullEntries ==
    [start : {0 - 1, 0, 1}, end : {0, 1, 2}, text : {TextA}]

\* negative end, blank, empty and padded text, missing fields
OddEntries ==
    { [start |-> 0, end |-> 0 - 1, text |-> TextA],
      [start |-> 0, end |-> 1, text |-> Blank],
      [start |-> 0, end |-> 1, text |-> <<>>],
      [start |-> 0, end |-> 2, text |-> TextB],
      [start |-> 1, end |-> 2, text |-> TextB],
      [start |-> 0, end |-> 1],
      [end |-> 1, text |-> TextA],
      [text |-> TextA] }

Entries == FullEntries \cup OddEntries

RECURSIVE ListsUpTo(_, _)
ListsUpTo(S, n) ==
    IF n = 0 THEN {<<>>}
    ELSE LET shorter == ListsUpTo(S, n - 1)
         IN  shorter \cup {<<x>> \o l : x \in S, l \in {m \in shorter : Len(m) = n - 1}}

\* TranscriptFormatter.__init__: group 1 of each pattern, which '\s+(.+)$' follows
YoutubeStampPatterns ==
    << <<D(1, 2)>> \o Ch(":") \o <<D(2, 2)>>,
       <<D(1, 2)>> \o Ch(":") \o <<D(2, 2)>> \o Ch(":") \o <<D(2, 2)>>,
       <<D(1, 2)>> \o Ch(":") \o <<D(2, 2)>> \o Ch(".") \o <<D(3, 3)>>,
       <<D(1, 2)>> \o Ch(":") \o <<D(2, 2)>> \o Ch(":") \o <<D(2, 2)>> >>

\* a formatter as constructed, no concurrent caller at work
Constructed ==
    /\ youtube_patterns = YoutubeStampPatterns
    /\ calls = <<>>
    /\ made = 0
    /\ alone = <<>>

\* no call of the two WebVTT parsers is under way
NoPair ==
    /\ both = <<>>
    /\ epc = "idle"

\* no call of a time parser is under way
NoTimes ==
    /\ token = <<>>
    /\ timed = <<>>
    /\ tpc = "idle"

\* no call of parse_to_segments or segments_to_vtt is under way
NoFormatter ==
    /\ as_format = ""
    /\ built = <<>>
    /\ fpc = "idle"
    /\ original = <<>>

\* no call of parse is under way
NoParse ==
    /\ file = <<>>
    /\ ppc = "idle"
    /\ parsed = <<>>
    /\ raised = ""
    /\ route = <<>>
    /\ loaded = <<>>
    /\ reading = <<>>

InitV ==
    /\ Constructed
    /\ NoPair
    /\ segments \in ListsUpTo(Entries, MaxSegments)
    /\ cleaned = <<>>
    /\ again = <<>>
    /\ vpc = "call"
    /\ content = <<>>
    /\ detected = <<>>
    /\ dpc = "idle"
    /\ shape = <<>>
    /\ measure = <<>>
    /\ NoParse
    /\ NoTimes
    /\ NoFormatter

\* cleaned = TranscriptParser.validate_segments(segments)
Validate ==
    /\ vpc = "call"
    /\ cleaned' = validate_segments(segments)
    /\ vpc' = "validated"
    /\ UNCHANGED <<segments, again>>
    /\ UNCHANGED dvars
    /\ UNCHANGED pvars
    /\ UNCHANGED tvars
    /\ UNCHANGED cvars
    /\ UNCHANGED evars
    /\ UNCHANGED fvars

\* the result is passed through validate_segments once more
Revalidate ==
    /\ vpc = "validated"
    /\ again' = validate_segments(cleaned)
    /\ vpc' = "revalidated"
    /\ UNCHANGED <<segments, cleaned>>
    /\ UNCHANGED dvars
    /\ UNCHANGED pvars
    /\ UNCHANGED tvars
    /\ UNCHANGED cvars
    /\ UNCHANGED evars
    /\ UNCHANGED fvars

NextV == Validate \/ Revalidate

SpecV == InitV /\ [][NextV]_vars

(***************************************************************************)
(* TranscriptFormatter: format detection                                   *)
(***************************************************************************)
WEBVTT == <<"W", "E", "B", "V", "T", "T">>
Arrow == <<" ", "-", "-", ">", " ">>

YoutubePattern(k) == youtube_patterns[k] \o Spaces1 \o Any1

\* re.match(pattern, line) for some pattern of self.youtube_patterns
MatchesYoutube(line) ==
    \E k \in 1..Len(youtube_patterns) : FullMatch(YoutubePattern(k), line)

Sep == <<Cls({".", ","}, 1, 1)>>
Hms(sep) ==
    Word(<<D(2, 2)>> \o Ch(":") \o <<D(2, 2)>> \o Ch(":") \o <<D(2, 2)>> \o sep \o <<D(3, 3)>>)
Ms(sep) == <<D(1, 2)>> \o Word(Ch(":") \o <<D(2, 2)>> \o sep \o <<D(3, 3)>>)
MinSec == <<D(1, 2)>> \o Word(Ch(":") \o <<D(2, 2)>>)
To == Spaces0 \o Word(Lit(<<"-", "-", ">">>)) \o Spaces0

\* timestamp_patterns of _is_valid_timestamp_line
TimestampPatterns ==
    << Hms(Sep) \o To \o Hms(Sep),
       Ms(Sep) \o To \o Ms(Sep),
       MinSec \o To \o MinSec,
       Hms(Ch(".")) \o To \o Hms(Ch(".")) >>

_is_valid_timestamp_line(line) ==
    \E k \in 1..Len(TimestampPatterns) : Search(TimestampPatterns[k], line)

VttHeaderWeightHalf == Q(1, 2)
VttHeaderWeight == Q(2, 5)       \* 0.4
VttLinesWeight == Q(3, 5)        \* 0.6
SrtNumberWeight == Q(1, 5)       \* 0.2
SrtTimestampWeight == Q(3, 10)   \* 0.3
SrtBlocksWeight == Q(2, 5)       \* 0.4

_check_vtt_format(text, lines) ==
    LET header == IF StartsWith(text, WEBVTT) THEN VttHeaderWeight ELSE Zero
        timestamp_lines ==
            Cardinality({i \in 1..Len(lines) :
                Contains(lines[i], Arrow) /\ _is_valid_timestamp_line(lines[i])})
        total_lines == Len(lines)
        confidence ==
            IF total_lines > 0
            THEN QAdd(header, QMul(Q(timestamp_lines, total_lines), VttLinesWeight))
            ELSE header
    IN  QMin(confidence, One)

\* while i < len(lines) and lines[i]: i += 1
SkipTextLines(lines, i) ==
    LET empty == {k \in i..Len(lines) : lines[k] = <<>>}
    IN  IF empty # {} THEN Least(empty)
        ELSE IF i > Len(lines) THEN i ELSE Len(lines) + 1

\* the while loop of _check_srt_format: <<confidence, srt_blocks>> when it ends
RECURSIVE SrtScan(_, _, _, _)
SrtScan(lines, i, confidence, srt_blocks) ==
    IF i > Len(lines) THEN <<confidence, srt_blocks>>
    ELSE IF ~IsDigitStr(lines[i]) THEN <<confidence, srt_blocks>>
    ELSE LET c1 == QAdd(confidence, SrtNumberWeight)
             j == i + 1
         IN  IF j <= Len(lines) /\ Contains(lines[j], Arrow)
             THEN IF _is_valid_timestamp_line(ReplaceChar(lines[j], ",", "."))
                  THEN SrtScan(lines, SkipTextLines(lines, j + 1) + 1,
                               QAdd(c1, SrtTimestampWeight), srt_blocks + 1)
                  ELSE <<c1, srt_blocks>>
             ELSE <<c1, srt_blocks>>

_check_srt_format(lines) ==
    IF Len(lines) < 3 THEN Zero
    ELSE LET scan == SrtScan(lines, 1, Zero, 0)
             srt_blocks == scan[2]
             confidence ==
                 IF srt_blocks > 0
                 THEN QAdd(scan[1], QMul(SrtBlocksWeight, QMin(Q(srt_blocks, 2), One)))
                 ELSE scan[1]
         IN  QMin(confidence, One)

\* a detector that scores a single line like any other text
_check_youtube_format_any(lines) ==
    IF Len(lines) < 1 THEN Zero
    ELSE Q(Cardinality({i \in 1..Len(lines) : MatchesYoutube(lines[i])}), Len(lines))

_check_youtube_format(lines) ==
    IF Len(lines) < 2 THEN Zero
    ELSE Q(Cardinality({i \in 1..Len(lines) : MatchesYoutube(lines[i])}), Len(lines))

(***************************************************************************)
(* json.loads.  The decoder is a table over the JSON documents among the   *)
(* inputs: a decoded value is tagged with its Python type, a dict is a     *)
(* function on its keys, a number of seconds is kept in milliseconds.      *)
(***************************************************************************)
Num(ms) == [t |-> "num", ms |-> ms]
Str(chars) == [t |-> "str", s |-> chars]
Dict(d) == [t |-> "dict", d |-> d]
List(items) == [t |-> "list", items |-> items]

TextHi == <<"H", "i">>
TextYo == <<"Y", "o">>

JsonDocuments ==
    { [text |-> <<"[", "{", "\"", "s", "t", "a", "r", "t", "\"", ":", "0", ",", "\"", "e", "n", "d", "\"", ":", "3", ",", "\"", "t", "e", "x", "t", "\"", ":", "\"", "H", "i", "\"", "}", "]">>,
       value |-> List(<<Dict([start |-> Num(0), end |-> Num(3000), text |-> Str(TextHi)])>>)],
      [text |-> <<"[", "{", "\"", "s", "t", "a", "r", "t", "\"", ":", "0", ",", "\"", "t", "e", "x", "t", "\"", ":", "\"", "H", "i", "\"", "}", ",", "5", "]">>,
       value |-> List(<<Dict([start |-> Num(0), text |-> Str(TextHi)]), Num(5000)>>)],
      [text |-> <<"[", "{", "\"", "b", "e", "g", "i", "n", "\"", ":", "1", ",", "\"", "d", "u", "r", "a", "t", "i", "o", "n", "\"", ":", "2", ",", "\"", "c", "o", "n", "t", "e", "n", "t", "\"", ":", "\"", "H", "i", "\"", "}", ",", "{", "\"", "t", "i", "m", "e", "\"", ":", "4", ",", "\"", "s", "t", "o", "p", "\"", ":", "6", ",", "\"", "s", "u", "b", "t", "i", "t", "l", "e", "\"", ":", "\"", "Y", "o", "\"", "}", ",", "7", "]">>,
       value |-> List(<<Dict([begin |-> Num(1000), duration |-> Num(2000), content |-> Str(TextHi)]),
                        Dict([time |-> Num(4000), stop |-> Num(6000), subtitle |-> Str(TextYo)]),
                        Num(7000)>>)],
      [text |-> <<"{", "\"", "s", "t", "a", "r", "t", "\"", ":", "0", ",", "\"", "t", "e", "x", "t", "\"", ":", "\"", "H", "i", "\"", "}">>,
       value |-> Dict([start |-> Num(0), text |-> Str(TextHi)])],
      [text |-> <<"[", "]">>,
       value |-> List(<<>>)] }

JsonTexts == {doc.text : doc \in JsonDocuments}

Null == [t |-> "null"]

MaxItems == 2        \* elements of a written JSON array

TextX == <<"x">>
TextHalf == <<"1", ".", "5">>

\* elements of an array: objects that name their times and text with any of
\* the keys, objects that lack a start or a text, objects whose times are no
\* numbers, and a number
JsonItems ==
    { Dict([start |-> Num(0), end |-> Num(3000), text |-> Str(TextHi)]),
      Dict([begin |-> Num(1000), duration |-> Num(2000), content |-> Str(TextHi)]),
      Dict([time |-> Num(4000), stop |-> Num(6000), subtitle |-> Str(TextYo)]),
      Dict([timestamp |-> Num(7000), caption |-> Str(TextYo)]),
      Dict([start |-> Num(0), duration |-> Num(2000), text |-> Str(TextHi)]),
      Dict([start |-> Num(2000), begin |-> Num(9000), end |-> Num(5000), duration |-> Num(1000),
            text |-> Str(TextHi), content |-> Str(TextYo)]),
      Dict([start |-> Str(TextHalf), stop |-> Num(8000), duration |-> Num(1000), text |-> Str(TextYo)]),
      Dict([text |-> Str(TextHi)]),
      Dict([duration |-> Num(2000), text |-> Str(TextHi)]),
      Dict([start |-> Num(1000)]),
      Dict([start |-> Num(1000), text |-> Str(<<>>), content |-> Str(TextHi)]),
      Dict([start |-> Str(TextX), text |-> Str(TextHi)]),
      Dict([start |-> Num(1000), end |-> Str(TextX), text |-> Str(TextHi)]),
      Dict([start |-> Num(1000), duration |-> Null, text |-> Str(TextHi)]),
      Num(5000) }

\* the keys of an object in the order they are written
JsonKeys ==
    <<"start", "begin", "time", "timestamp", "end", "stop", "duration",
      "text", "content", "subtitle", "caption">>

KeyChars(key) ==
    CASE key = "start" -> <<"s", "t", "a", "r", "t">>
      [] key = "begin" -> <<"b", "e", "g", "i", "n">>
      [] key = "time" -> <<"t", "i", "m", "e">>
      [] key = "timestamp" -> <<"t", "i", "m", "e", "s", "t", "a", "m", "p">>
      [] key = "end" -> <<"e", "n", "d">>
      [] key = "stop" -> <<"s", "t", "o", "p">>
      [] key = "duration" -> <<"d", "u", "r", "a", "t", "i", "o", "n">>
      [] key = "text" -> <<"t", "e", "x", "t">>
      [] key = "content" -> <<"c", "o", "n", "t", "e", "n", "t">>
      [] key = "subtitle" -> <<"s", "u", "b", "t", "i", "t", "l", "e">>
      [] key = "caption" -> <<"c", "a", "p", "t", "i", "o", "n">>

\* json.dumps of a number of whole seconds, a string without escapes, or null
DumpsScalar(value) ==
    CASE value.t = "num" -> DecimalStr(value.ms \div 1000)
      [] value.t = "str" -> <<"\"">> \o value.s \o <<"\"">>
      [] OTHER -> <<"n", "u", "l", "l">>

DumpsMember(d, key) == <<"\"">> \o KeyChars(key) \o <<"\"", ":">> \o DumpsScalar(d[key])

DumpsMembers(d, keys) ==
    <<"{">> \o Join([k \in 1..Len(keys) |-> DumpsMember(d, keys[k])], <<",">>) \o <<"}">>

DumpsItem(value) ==
    IF value.t = "dict"
    THEN DumpsMembers(value.d, SelectSeq(JsonKeys, LAMBDA key : key \in DOMAIN value.d))
    ELSE DumpsScalar(value)

\* json.dumps(items, separators=(',', ':'))
DumpsList(items) ==
    <<"[">> \o Join([k \in 1..Len(items) |-> DumpsItem(items[k])], <<",">>) \o <<"]">>

\* the arrays of elements, each with the text it is written as
WrittenDocuments ==
    {[text |-> DumpsList(items), value |-> List(items)] : items \in ListsUpTo(JsonItems, MaxItems)}

WrittenTexts == {doc.text : doc \in WrittenDocuments}

\* json.loads(text): the decoded value, or the JSONDecodeError
JsonLoads(text) ==
    IF text \in JsonTexts THEN (CHOOSE doc \in JsonDocuments : doc.text = text).value
    ELSE IF StartsWith(text, <<"[">>) /\ text \in WrittenTexts
    THEN (CHOOSE doc \in WrittenDocuments : doc.text = text).value
    ELSE IF IsDigitStr(text) /\ (Len(text) = 1 \/ text[1] # "0") THEN Num(0)
    ELSE [t |-> "JSONDecodeError"]

TimeKeys == {"start", "time", "timestamp", "begin"}
TextKeys == {"text", "content", "subtitle"}

_check_json_format(text) ==
    LET data == JsonLoads(text)
    IN  IF data.t = "list" /\ data.items # <<>>
        THEN LET sample_size == IF Len(data.items) < 3 THEN Len(data.items) ELSE 3
                 valid_items ==
                     Cardinality({i \in 1..sample_size :
                         /\ data.items[i].t = "dict"
                         /\ TimeKeys \cap DOMAIN data.items[i].d # {}
                         /\ TextKeys \cap DOMAIN data.items[i].d # {}})
             IN  Q(valid_items, sample_size)
        ELSE Zero

VttThreshold == Q(3, 5)       \* 0.6
SrtThreshold == Q(7, 10)      \* 0.7
YoutubeThreshold == Q(3, 5)   \* 0.6
JsonThreshold == Q(3, 5)      \* 0.6
PlainConfidence == Q(1, 2)    \* 0.5

Result(format, confidence) == [format |-> format, confidence |-> confidence]

\* vtt_confidence > 0.6, taken for >=
VttAcceptsInclusive(c) == QLe(VttThreshold, c)

VttAccepts(c) == QLt(VttThreshold, c)

\* srt_confidence >= 0.7, taken for >
SrtAcceptsStrict(c) == QLt(SrtThreshold, c)

SrtAccepts(c) == QLe(SrtThreshold, c)

YoutubeAccepts(c) == QLt(YoutubeThreshold, c)

JsonAccepts(c) == QLt(JsonThreshold, c)

\* a default that gives up on every text
PlainDefaultUnknown(stripped) == Result("UNKNOWN", Zero)

\* default to plain text if we have content
PlainDefault(stripped) ==
    IF stripped # <<>> THEN Result("PLAIN_TEXT", PlainConfidence)
    ELSE Result("UNKNOWN", Zero)

\* a detector that tries the YouTube shape before the SRT shape
detect_format_youtube_first(text) ==
    LET stripped == Strip(text)
        lines == StrippedLines(stripped)
        vtt_confidence == _check_vtt_format(stripped, lines)
        srt_confidence == _check_srt_format(lines)
        youtube_confidence == _check_youtube_format(lines)
        json_confidence == _check_json_format(stripped)
    IN  IF lines = <<>> THEN Result("UNKNOWN", Zero)
        ELSE IF VttAccepts(vtt_confidence) THEN Result("VTT", vtt_confidence)
        ELSE IF YoutubeAccepts(youtube_confidence)
             THEN Result("YOUTUBE_COPY_PASTE", youtube_confidence)
        ELSE IF SrtAccepts(srt_confidence) THEN Result("SRT", srt_confidence)
        ELSE IF JsonAccepts(json_confidence)
             THEN Result("JSON_TIMESTAMPS", json_confidence)
        ELSE PlainDefault(stripped)

detect_format(text) ==
    LET stripped == Strip(text)
        lines == StrippedLines(stripped)
        vtt_confidence == _check_vtt_format(stripped, lines)
        srt_confidence == _check_srt_format(lines)
        youtube_confidence == _check_youtube_format(lines)
        json_confidence == _check_json_format(stripped)
    IN  IF lines = <<>> THEN Result("UNKNOWN", Zero)
        ELSE IF VttAccepts(vtt_confidence) THEN Result("VTT", vtt_confidence)
        ELSE IF SrtAccepts(srt_confidence) THEN Result("SRT", srt_confidence)
        ELSE IF YoutubeAccepts(youtube_confidence)
             THEN Result("YOUTUBE_COPY_PASTE", youtube_confidence)
        ELSE IF JsonAccepts(json_confidence)
             THEN Result("JSON_TIMESTAMPS", json_confidence)
        ELSE PlainDefault(stripped)

(***************************************************************************)
(* TranscriptFormatter.parse_to_segments.  Times are kept in milliseconds. *)
(***************************************************************************)
TranscriptSegment(start, end, text) == [start |-> start, end |-> end, text |-> text]

HoursMinutesSeconds == <<D(1, 2)>> \o Ch(":") \o <<D(2, 2)>> \o Ch(":") \o <<D(2, 2)>>
MinutesSeconds == <<D(1, 2)>> \o Ch(":") \o <<D(2, 2)>>
Fraction == <<Cls({".", ","}, 1, 1), D(1, 3)>>     \* (?:[\.,](\d{1,3}))?

\* the values of the groups of a match of pat at the start of s: the fields, then
\* the fraction (0 without one)
GroupValues(pat, fields, s, counts) ==
    [k \in 1..(fields + 1) |->
        IF k <= fields THEN Decimal(Group(s, 1, counts, 2 * k - 1, 2 * k - 1))
        ELSE IF Len(pat) > 2 * fields - 1
        THEN Decimal(Group(s, 1, counts, Len(pat), Len(pat)))
        ELSE 0]

MatchGroups(pat, fields, s) ==
    GroupValues(pat, fields, s, GreedyCounts(pat, 1, s, 1, FALSE))

\* re.match(base + '(?:[\.,](\d{1,3}))?', s): the group values, <<>> without a match
TimeGroups(base, s) ==
    IF MatchEnds(base, 1, s, 1) = {} THEN <<>>
    ELSE MatchGroups(IF MatchEnds(base \o Fraction, 1, s, 1) # {}
                     THEN base \o Fraction ELSE base,
                     Len(base) \div 2 + 1, s)

HoursValue(hms) ==
    IF hms = <<>> THEN ValueError
    ELSE Ok((hms[1] * 3600 + hms[2] * 60 + hms[3]) * 1000 + hms[4])

MinutesValue(ms) ==
    IF ms = <<>> THEN ValueError
    ELSE Ok((ms[1] * 60 + ms[2]) * 1000 + ms[3])

TimeOfToken(time_str, colons) ==
    IF colons = 2 THEN HoursValue(TimeGroups(HoursMinutesSeconds, time_str))
    ELSE IF colons = 1 THEN MinutesValue(TimeGroups(MinutesSeconds, time_str))
    ELSE ValueError

_parse_time_string(str) ==
    TimeOfToken(FirstToken(str), CountChar(FirstToken(str), ":"))

\* the float returned for a time of t milliseconds:
\* hours * 3600 + minutes * 60 + seconds + milliseconds / 1000.0
PrimaryDouble(t) == Plus(t \div 1000, OfDecimal(0, t % 1000))

BothTimes(times) ==
    IF times[1].ok /\ times[2].ok THEN Ok(<<times[1].v, times[2].v>>) ELSE ValueError

TimesOfParts(parts) ==
    IF Len(parts) # 2 THEN ValueError
    ELSE BothTimes([k \in 1..2 |-> _parse_time_string(Strip(parts[k]))])

_parse_timestamp_line(line) == TimesOfParts(SplitStr(line, Arrow))

YoutubeSeconds(ints) ==
    IF Len(ints) \notin {2, 3} \/ \E k \in 1..Len(ints) : ~ints[k].ok THEN ValueError
    ELSE IF Len(ints) = 2 THEN Ok((ints[1].v * 60 + ints[2].v) * 1000)
    ELSE Ok((ints[1].v * 3600 + ints[2].v * 60 + ints[3].v) * 1000)

IntsOf(parts) == [k \in 1..Len(parts) |-> IntOf(parts[k])]

_parse_youtube_timestamp(timestamp_str) == YoutubeSeconds(IntsOf(SplitOn(timestamp_str, ":")))

\* the position of the first line that holds ' --> ', 0 if none does
FirstOf(ks) == IF ks = {} THEN 0 ELSE Least(ks)

ArrowLine(lines) == FirstOf({i \in 1..Len(lines) : Contains(lines[i], Arrow)})

\* the segment of one block of a WebVTT text, as a list of none or one
SegmentOf(times, text) ==
    IF times.ok THEN <<TranscriptSegment(times.v[1], times.v[2], text)>> ELSE <<>>

\* the segment of the lines of a block, the i-th being the first that holds ' --> '
VttLinesSegment(lines, i) ==
    IF Len(lines) < 2 \/ i = 0 \/ i = Len(lines) THEN <<>>
    ELSE SegmentOf(_parse_timestamp_line(lines[i]),
                   JoinSpace(SubSeq(lines, i + 1, Len(lines))))

VttBlockSegment(block) ==
    VttLinesSegment(StrippedLines(block), ArrowLine(StrippedLines(block)))

_parse_vtt_segments(text) ==
    LET blocks == SplitBlocks(text)
    IN  Flatten([k \in 1..(Len(blocks) - 1) |-> VttBlockSegment(blocks[k + 1])])

\* the segment of one block of an SRT text, as a list of none or one
SrtLinesSegment(lines) ==
    IF Len(lines) < 3 \/ ~Contains(lines[2], Arrow) THEN <<>>
    ELSE SegmentOf(_parse_timestamp_line(ReplaceChar(lines[2], ",", ".")),
                   JoinSpace(SubSeq(lines, 3, Len(lines))))

SrtBlockSegment(block) == SrtLinesSegment(StrippedLines(block))

_parse_srt_segments(text) ==
    LET blocks == SplitBlocks(text)
    IN  Flatten([k \in 1..Len(blocks) |-> SrtBlockSegment(blocks[k])])

\* the first pattern of self.youtube_patterns that matches the line, 0 if none
FirstYoutubePattern(line) ==
    FirstOf({k \in 1..Len(youtube_patterns) : FullMatch(YoutubePattern(k), line)})

\* match.group(1) and match.group(2) of pattern k on the line
GroupPair(line, counts, stamp) ==
    <<Group(line, 1, counts, 1, stamp), Group(line, 1, counts, stamp + 2, stamp + 2)>>

YoutubeGroups(k, line) ==
    GroupPair(line, GreedyCounts(YoutubePattern(k), 1, line, 1, TRUE),
              Len(youtube_patterns[k]))

\* the segment of line i, trying the patterns from the k-th on
\* the pattern that matches the line behind line i, 0 if none does or no line is left
NextPattern(lines, i) ==
    IF i + 1 <= Len(lines) THEN FirstYoutubePattern(lines[i + 1]) ELSE 0

\* the end of the segment of line i: the start of the next line, or three seconds on
YoutubeEndTime(lines, i, start_time, next) ==
    IF ~start_time.ok THEN ValueError
    ELSE IF next = 0 THEN Ok(start_time.v + 3000)
    ELSE _parse_youtube_timestamp(YoutubeGroups(next, lines[i + 1])[1])

Spanned(start_time, end_time, text) ==
    IF start_time.ok /\ end_time.ok
    THEN Ok(<<TranscriptSegment(start_time.v, end_time.v, text)>>)
    ELSE ValueError

StartedAt(lines, i, start_time, text) ==
    Spanned(start_time, YoutubeEndTime(lines, i, start_time, NextPattern(lines, i)), text)

\* the segment of line i under the pattern whose groups these are, or the ValueError
YoutubeMatch(lines, i, groups) ==
    StartedAt(lines, i, _parse_youtube_timestamp(groups[1]), groups[2])

OrElse(result, other) == IF result.ok THEN result.v ELSE other

RECURSIVE YoutubeLineSegment(_, _, _)
YoutubeLineSegment(lines, i, k) ==
    IF k > Len(youtube_patterns) THEN <<>>
    ELSE IF ~FullMatch(YoutubePattern(k), lines[i]) THEN YoutubeLineSegment(lines, i, k + 1)
    ELSE OrElse(YoutubeMatch(lines, i, YoutubeGroups(k, lines[i])),
                YoutubeLineSegment(lines, i, k + 1))

_parse_youtube_segments(text) ==
    LET lines == StrippedLines(text)
    IN  Flatten([i \in 1..Len(lines) |-> YoutubeLineSegment(lines, i, 1)])

StartFields == <<"start", "begin", "time", "timestamp">>
EndFields == <<"end", "stop", "duration">>
TextFields == <<"text", "content", "subtitle", "caption">>

\* the first of the fields that the dict has, "" if it has none of them
FirstField(d, fields) ==
    IF FirstOf({k \in 1..Len(fields) : fields[k] \in DOMAIN d}) = 0 THEN ""
    ELSE fields[FirstOf({k \in 1..Len(fields) : fields[k] \in DOMAIN d})]

\* float(value): a number as it is, a string parsed; the TypeError of any
\* other value ends the parse just as a ValueError does
FloatValue(value) ==
    IF value.t = "num" THEN Ok(value.ms)
    ELSE IF value.t = "str" THEN FloatOf(value.s)
    ELSE ValueError

\* one item of the decoded list: its segment as a list of none or one, or the error
\* float(item[field]), 0 standing for a field that is absent
FieldFloat(d, field) == IF field = "" THEN Ok(0) ELSE FloatValue(d[field])

\* str(item[text_field]), the text of a document being a string
FieldText(d, field) == IF field = "" THEN <<>> ELSE d[field].s

EndTime(start_time, end_field, end_value) ==
    IF end_field = "" THEN start_time + 3000
    ELSE IF end_field = "duration" THEN start_time + end_value
    ELSE end_value

DictSegment(start_field, end_field, start_time, end_value, text) ==
    IF ~start_time.ok \/ ~end_value.ok THEN ValueError
    ELSE IF start_field # "" /\ text # <<>>
    THEN Ok(<<TranscriptSegment(start_time.v,
                                EndTime(start_time.v, end_field, end_value.v), text)>>)
    ELSE Ok(<<>>)

DictFields(d, start_field, end_field, text_field) ==
    DictSegment(start_field, end_field, FieldFloat(d, start_field),
                FieldFloat(d, end_field), FieldText(d, text_field))

JsonItemSegment(item) ==
    IF item.t # "dict" THEN Ok(<<>>)
    ELSE DictFields(item.d, FirstField(item.d, StartFields), FirstField(item.d, EndFields),
                    FirstField(item.d, TextFields))

ItemsSegments(items) ==
    IF \E i \in 1..Len(items) : ~items[i].ok THEN <<>>
    ELSE Flatten([i \in 1..Len(items) |-> items[i].v])

ListSegments(data) ==
    IF data.t # "list" THEN <<>>
    ELSE ItemsSegments([i \in 1..Len(data.items) |-> JsonItemSegment(data.items[i])])

\* json.loads skips surrounding whitespace
_parse_json_segments(text) == ListSegments(JsonLoads(Strip(text)))

SentenceEnd == {".", "!", "?"}

\* the positions where whitespace begins right behind a sentence end
SentenceBreaks(s) == {i \in 2..Len(s) : IsSpace(s[i]) /\ s[i - 1] \in SentenceEnd}

\* re.split(r'(?<=[.!?])\s+', s): whitespace behind a sentence end separates
Sentences(s) ==
    Cut(s, {<<i, FirstInk(s, i) - 1>> : i \in SentenceBreaks(s)}, 1, Len(s))

\* len(s.split())
WordCount(s) ==
    Cardinality({i \in 1..Len(s) : ~IsSpace(s[i]) /\ (i = 1 \/ IsSpace(s[i - 1]))})

\* word_count * 0.5, however short the sentence
DurationPerWord(sentence) == WordCount(sentence) * 500

\* max(word_count * 0.5, 1.0)
Duration(sentence) ==
    IF WordCount(sentence) * 500 > 1000 THEN WordCount(sentence) * 500 ELSE 1000

RECURSIVE PlainSegmentsFrom(_, _, _)
PlainSegmentsFrom(sentences, k, current_time) ==
    IF k > Len(sentences) THEN <<>>
    ELSE IF Strip(sentences[k]) = <<>> THEN PlainSegmentsFrom(sentences, k + 1, current_time)
    ELSE LET duration == Duration(sentences[k])
         IN  <<TranscriptSegment(current_time, current_time + duration, Strip(sentences[k]))>>
                 \o PlainSegmentsFrom(sentences, k + 1, current_time + duration)

_parse_plain_text_segments(text) ==
    PlainSegmentsFrom(Sentences(text), 1, 0)

parse_to_segments(text, format_type) ==
    CASE format_type = "VTT" -> _parse_vtt_segments(text)
      [] format_type = "SRT" -> _parse_srt_segments(text)
      [] format_type = "YOUTUBE_COPY_PASTE" -> _parse_youtube_segments(text)
      [] format_type = "JSON_TIMESTAMPS" -> _parse_json_segments(text)
      [] format_type = "PLAIN_TEXT" -> _parse_plain_text_segments(text)
      [] OTHER -> <<>>

(***************************************************************************)
(* The legacy parsers of TranscriptParser                                  *)
(***************************************************************************)
Letters ==
    {"a", "b", "c", "d", "e", "f", "g", "h", "i", "j", "k", "l", "m", "n", "o", "p", "q", "r", "s", "t", "u", "v", "w", "x", "y", "z"}
    \cup {"A", "B", "C", "D", "E", "F", "G", "H", "I", "J", "K", "L", "M", "N", "O", "P", "Q", "R", "S", "T", "U", "V", "W", "X", "Y", "Z"}

Tag == Ch("<") \o <<NotCls({">"}, 1, 0 - 1)>> \o Ch(">")                     \* <[^>]+>
Entity == Ch("&") \o <<Cls(Letters \cup Digits \cup {"#"}, 1, 0 - 1)>> \o Ch(";")  \* &[a-zA-Z0-9#]+;
Braces == Ch("{") \o <<NotCls({"}"}, 0, 0 - 1)>> \o Ch("}")                  \* \{[^}]*\}
BareStamp == <<D(1, 0 - 1)>> \o Ch(":") \o <<D(1, 0 - 1)>>                   \* ^\d+:\d+$
Bracketed == Ch("[") \o <<Cls(Letters \cup Digits \cup {"_"}, 1, 0 - 1)>> \o Ch("]")  \* ^\[\w+\]$

\* the hours counted as minutes
ClockSecondsHoursAsMinutes(n, whole, seconds) ==
    IF n > 3 \/ ~seconds.ok \/ \E k \in 1..(n - 1) : ~whole[k].ok THEN ValueError
    ELSE IF n = 3 THEN Ok(whole[1].v * 60000 + whole[2].v * 60000 + seconds.v)
    ELSE Ok(whole[1].v * 60000 + seconds.v)

ClockSeconds(n, whole, seconds) ==
    IF n > 3 \/ ~seconds.ok \/ \E k \in 1..(n - 1) : ~whole[k].ok THEN ValueError
    ELSE IF n = 3 THEN Ok(whole[1].v * 3600000 + whole[2].v * 60000 + seconds.v)
    ELSE Ok(whole[1].v * 60000 + seconds.v)

ClockOfParts(time_str, parts) ==
    IF Len(parts) = 1 THEN FloatOf(time_str)
    ELSE ClockSeconds(Len(parts), IntsOf(SubSeq(parts, 1, Len(parts) - 1)),
                      FloatOf(parts[Len(parts)]))

StrippedClock(time_str) == ClockOfParts(time_str, SplitOn(time_str, ":"))

_time_to_seconds(str) == StrippedClock(Strip(str))

\* the float returned for a time of t milliseconds whose seconds are below 60:
\* int(hours) * 3600 + int(minutes) * 60 + float(seconds)
LegacyDouble(t) == Plus(60 * (t \div 60000), OfDecimal((t % 60000) \div 1000, t % 1000))

\* the lines of a cue with markup, entities and artifacts taken out
CleanVttLine(plain) ==
    IF FullMatch(BareStamp, plain) \/ FullMatch(Bracketed, plain) THEN <<>>
    ELSE Strip(plain)

CleanVttLines(text_lines) ==
    SelectSeq([k \in 1..Len(text_lines) |->
                  CleanVttLine(RemoveAll(Entity, RemoveAll(Tag, text_lines[k], 1), 1))],
              LAMBDA l : l # <<>> /\ ~IsDigitStr(l))

\* the segment of one block, as a list of none or one
LegacySegment(times, clean_text_lines) ==
    IF ~times[1].ok \/ ~times[2].ok THEN <<>>
    ELSE IF clean_text_lines = <<>> THEN <<>>
    ELSE <<TranscriptSegment(times[1].v, times[2].v, JoinSpace(clean_text_lines))>>

\* the end time keeps what follows its first token
LegacyVttCueWholeEnd(timestamp_parts, text_lines) ==
    IF Len(timestamp_parts) # 2 THEN <<>>
    ELSE LegacySegment([k \in 1..2 |-> _time_to_seconds(Strip(timestamp_parts[k]))],
                       CleanVttLines(text_lines))

\* the end time gives up what follows its first token
LegacyVttCue(timestamp_parts, text_lines) ==
    IF Len(timestamp_parts) # 2 THEN <<>>
    ELSE LegacySegment([k \in 1..2 |->
                           _time_to_seconds(IF k = 1 THEN Strip(timestamp_parts[1])
                                            ELSE FirstToken(Strip(timestamp_parts[2])))],
                       CleanVttLines(text_lines))

LegacyVttLines(lines, i) ==
    IF Len(lines) < 2 \/ i = 0 \/ i = Len(lines) THEN <<>>
    ELSE LegacyVttCue(SplitStr(lines[i], Arrow), SubSeq(lines, i + 1, Len(lines)))

LegacyVttStripped(block) ==
    IF block = <<>> \/ StartsWith(block, WEBVTT) \/ StartsWith(block, <<"N", "O", "T", "E">>)
    THEN <<>>
    ELSE LegacyVttLines(StrippedLines(block), ArrowLine(StrippedLines(block)))

LegacyVttBlock(raw) == LegacyVttStripped(Strip(raw))

_parse_vtt(text) ==
    LET blocks == SplitBlocks(text)
    IN  Flatten([k \in 1..Len(blocks) |-> LegacyVttBlock(blocks[k])])

CleanSrtLines(text_lines) ==
    LET clean(line) ==
            Strip(RemoveAll(Entity, RemoveAll(Braces, RemoveAll(Tag, line, 1), 1), 1))
    IN  SelectSeq([k \in 1..Len(text_lines) |-> clean(text_lines[k])], LAMBDA l : l # <<>>)

\* the segment of one block, as a list of none or one
LegacySrtCue(timestamp_parts, text_lines) ==
    IF Len(timestamp_parts) # 2 THEN <<>>
    ELSE LegacySegment([k \in 1..2 |->
                           _time_to_seconds(ReplaceChar(Strip(timestamp_parts[k]), ",", "."))],
                       CleanSrtLines(text_lines))

LegacySrtLines(lines) ==
    IF Len(lines) < 3 THEN <<>>
    ELSE IF ~IsDigitStr(lines[1]) \/ ~Contains(lines[2], Arrow) THEN <<>>
    ELSE LegacySrtCue(SplitStr(lines[2], Arrow), SubSeq(lines, 3, Len(lines)))

LegacySrtStripped(block) ==
    IF block = <<>> THEN <<>> ELSE LegacySrtLines(StrippedLines(block))

LegacySrtBlock(raw) == LegacySrtStripped(Strip(raw))

_parse_srt(text) ==
    LET blocks == SplitBlocks(Strip(text))
    IN  Flatten([k \in 1..Len(blocks) |-> LegacySrtBlock(blocks[k])])

SniffLength == 1000

\* ^\d+\s*\n\d{2}:\d{2}:\d{2},\d{3} --> \d{2}:\d{2}:\d{2},\d{3} with re.MULTILINE
SrtLead ==
    <<D(1, 0 - 1)>> \o Spaces0 \o Ch("\n") \o Hms(Ch(",")) \o Word(Lit(Arrow)) \o Hms(Ch(","))

SearchAtLineStart(pat, s) ==
    \E i \in 1..(Len(s) + 1) :
        /\ i = 1 \/ s[i - 1] = "\n"
        /\ MatchEnds(pat, 1, s, i) # {}

\* the sniff with an empty list, not an error, when nothing is recognised
_parse_auto_detect_lenient(text) ==
    LET head == SubSeq(text, 1, IF Len(text) < SniffLength THEN Len(text) ELSE SniffLength)
    IN  IF Contains(head, WEBVTT) THEN Ok(_parse_vtt(text))
        ELSE IF SearchAtLineStart(SrtLead, head) THEN Ok(_parse_srt(text))
        ELSE Ok(<<>>)

\* the segments of the parser that the first characters select, or the error
_parse_auto_detect(text) ==
    LET head == SubSeq(text, 1, IF Len(text) < SniffLength THEN Len(text) ELSE SniffLength)
    IN  IF Contains(head, WEBVTT) THEN Ok(_parse_vtt(text))
        ELSE IF SearchAtLineStart(SrtLead, head) THEN Ok(_parse_srt(text))
        ELSE ValueError

(***************************************************************************)
(* Input texts                                                             *)
(***************************************************************************)
MaxLines == 3        \* lines of a text put together freely
MaxCues == 2         \* cues of a WebVTT text, blocks of an SRT text
MaxTextLines == 2    \* text lines of a cue or block
MaxMeta == 1         \* metadata lines of a WebVTT header block

LineKind == <<"K", "i", "n", "d", ":", " ", "c", "a", "p", "t", "i", "o", "n", "s">>
LineCue1 == <<"0", "0", ":", "0", "0", ":", "0", "1", ".", "0", "0", "0", " ", "-", "-", ">", " ", "0", "0", ":", "0", "0", ":", "0", "3", ".", "0", "0", "0">>
LineCue2 == <<"0", "0", ":", "0", "0", ":", "0", "4", ".", "0", "0", "0", " ", "-", "-", ">", " ", "0", "0", ":", "0", "0", ":", "0", "6", ".", "0", "0", "0">>
LineSrt1 == <<"0", "0", ":", "0", "0", ":", "0", "1", ",", "0", "0", "0", " ", "-", "-", ">", " ", "0", "0", ":", "0", "0", ":", "0", "3", ",", "0", "0", "0">>
LineSrt2 == <<"0", "0", ":", "0", "0", ":", "0", "4", ",", "0", "0", "0", " ", "-", "-", ">", " ", "0", "0", ":", "0", "0", ":", "0", "6", ",", "0", "0", "0">>
LineShortCue == <<"0", ":", "0", "0", " ", "-", "-", ">", " ", "0", ":", "0", "5">>
LineYoutube1 == <<"0", ":", "0", "0", " ", "H", "i">>
LineYoutube2 == <<"0", ":", "1", "5", " ", "B", "y", "e">>
LineSentence == <<"B", "y", "e", " ", "n", "o", "w", ".">>
LineOne == <<"1">>
LineSpace == <<" ">>

FreeLines ==
    { <<>>, LineSpace, WEBVTT, LineCue1, LineSrt1, LineShortCue,
      LineOne, LineSentence, LineYoutube1, LineYoutube2 }

\* the text lines of a cue or block with n text lines
CueText(n) == [i \in 1..n |-> IF i = 1 THEN TextHi ELSE LineSentence]

\* a cue block: the blank line before it, its timestamp line, its text lines
VttCue(c) == <<<<>>, c.time>> \o CueText(c.n)

VttCues == [time : {LineCue1, LineCue2}, n : 1..MaxTextLines]

VttHeader(meta) == <<WEBVTT>> \o [i \in 1..meta |-> LineKind]

\* header block, then the cue blocks
VttLines(meta, cues) == VttHeader(meta) \o Flatten([i \in 1..Len(cues) |-> VttCue(cues[i])])

DigitOf(k) == CASE k = 1 -> "1" [] k = 2 -> "2" [] k = 3 -> "3" [] k = 4 -> "4" [] OTHER -> "5"

SrtBlocks == [time : {LineSrt1, LineSrt2}, n : 1..MaxTextLines]

\* the k-th block: sequence number, timestamp line, text lines
SrtBlock(k, b) ==
    (IF k = 1 THEN <<>> ELSE <<<<>>>>) \o <<<<DigitOf(k)>>, b.time>> \o CueText(b.n)

SrtLines(blocks) == Flatten([k \in 1..Len(blocks) |-> SrtBlock(k, blocks[k])])

\* a block whose sequence number is set off from its timestamp by a blank line
LooseSrtLines(b) == <<<<DigitOf(1)>>, <<>>, b.time>> \o CueText(b.n)

TextTagged == <<"<", "b", ">", "H", "i", "<", "/", "b", ">">>

\* header line, then cues of one text line with inline markup
TaggedVttLines(cues) ==
    <<WEBVTT>> \o Flatten([i \in 1..Len(cues) |-> <<<<>>, cues[i].time, TextTagged>>])

\* blocks of one text line with inline markup
TaggedSrtLines(blocks) ==
    Flatten([k \in 1..Len(blocks) |->
                (IF k = 1 THEN <<>> ELSE <<<<>>>>) \o <<<<DigitOf(k)>>, blocks[k].time, TextTagged>>])

Shape(kind, meta, parts) == [kind |-> kind, meta |-> meta, parts |-> parts]

\* free: any lines; vtt: header block and cues; srt: blocks; loose: a block
\* with a blank line after its number; json: a document
FreeShapes(n) == {Shape("free", 0, lines) : lines \in ListsUpTo(FreeLines, n)}

VttShapes ==
    {Shape("vtt", meta, cues) : meta \in 0..MaxMeta, cues \in ListsUpTo(VttCues, MaxCues) \ {<<>>}}

SrtShapes == {Shape("srt", 0, blocks) : blocks \in ListsUpTo(SrtBlocks, MaxCues) \ {<<>>}}

TaggedShapes ==
    {Shape("tagged vtt", 0, cues) :
        cues \in ListsUpTo([time : {LineCue1, LineCue2}, n : {1}], MaxCues) \ {<<>>}}
    \cup {Shape("tagged srt", 0, blocks) :
        blocks \in ListsUpTo([time : {LineSrt1, LineSrt2}, n : {1}], MaxCues) \ {<<>>}}

LooseShapes == {Shape("loose", 0, <<b>>) : b \in SrtBlocks}

LineHeadCue == WEBVTT \o <<" ">> \o LineCue1

\* lines the first of which begins with WEBVTT and is a timestamp line as well
HeadedShapes ==
    {Shape("free", 0, <<LineHeadCue>> \o lines) : lines \in ListsUpTo({LineCue1, TextHi}, 1)}

JsonShapes == {Shape("json", 0, text) : text \in JsonTexts}

\* written: an array of elements
WrittenShapes == {Shape("written", 0, items) : items \in ListsUpTo(JsonItems, MaxItems)}

\* sh is one of the shapes, a free one having n lines at most
IsShape(sh, n) ==
    \/ sh \in FreeShapes(n)
    \/ sh \in VttShapes
    \/ sh \in SrtShapes
    \/ sh \in LooseShapes
    \/ sh \in JsonShapes

\* the text of a shape
Render(sh) ==
    CASE sh.kind = "free" -> JoinLines(sh.parts)
      [] sh.kind = "vtt" -> JoinLines(VttLines(sh.meta, sh.parts))
      [] sh.kind = "srt" -> JoinLines(SrtLines(sh.parts))
      [] sh.kind = "loose" -> JoinLines(LooseSrtLines(sh.parts[1]))
      [] sh.kind = "tagged vtt" -> JoinLines(TaggedVttLines(sh.parts))
      [] sh.kind = "tagged srt" -> JoinLines(TaggedSrtLines(sh.parts))
      [] sh.kind = "written" -> DumpsList(sh.parts)
      [] OTHER -> sh.parts

\* facts about a text: how many non-empty lines it has, how many of them are
\* timestamp lines and timestamp-prefixed lines, and its four confidences
Measure(text) ==
    LET stripped == Strip(text)
        lines == StrippedLines(stripped)
        vtt == _check_vtt_format(stripped, lines)
        srt == _check_srt_format(lines)
        youtube == _check_youtube_format(lines)
        json == _check_json_format(stripped)
    IN  [ count |-> Len(lines),
          timestamps |-> Cardinality({i \in 1..Len(lines) :
              Contains(lines[i], Arrow) /\ _is_valid_timestamp_line(lines[i])}),
          prefixed |-> Cardinality({i \in 1..Len(lines) : MatchesYoutube(lines[i])}),
          vtt |-> vtt, srt |-> srt, youtube |-> youtube, json |-> json,
          vttOk |-> QLt(Q(6, 10), vtt), srtOk |-> QLe(Q(7, 10), srt),
          youtubeOk |-> QLt(Q(6, 10), youtube), jsonOk |-> QLt(Q(6, 10), json) ]

(***************************************************************************)
(* Calls of detect_format                                                  *)
(***************************************************************************)
InitD ==
    /\ Constructed
    /\ NoPair
    /\ IsShape(shape, MaxLines) \/ shape \in HeadedShapes
    /\ content = Render(shape)
    /\ measure = Measure(content)
    /\ detected = <<>>
    /\ dpc = "call"
    /\ segments = <<>>
    /\ cleaned = <<>>
    /\ again = <<>>
    /\ vpc = "idle"
    /\ NoParse
    /\ NoTimes
    /\ NoFormatter

\* detected = formatter.detect_format(content)
Detect ==
    /\ dpc = "call"
    /\ detected' = detect_format(content)
    /\ dpc' = "done"
    /\ UNCHANGED <<content, shape, measure>>
    /\ UNCHANGED vvars
    /\ UNCHANGED tvars
    /\ UNCHANGED cvars
    /\ UNCHANGED evars
    /\ UNCHANGED fvars
    /\ UNCHANGED pvars

NextD == Detect

SpecD == InitD /\ [][NextD]_vars

(***************************************************************************)
(* TranscriptParser.parse, step by step, and its caller                    *)
(***************************************************************************)
MaxFileLines == 2    \* lines of a file put together freely

Suffixes == {".vtt", ".SRT", ".txt"}

\* file_path.suffix.lower()
Lower(suffix) == IF suffix = ".SRT" THEN ".srt" ELSE suffix

\* a missing file, or one that is there and that open() can or cannot read
Files ==
    [exists : {FALSE}, readable : {FALSE}, suffix : Suffixes]
    \cup [exists : {TRUE}, readable : BOOLEAN, suffix : Suffixes]


\* the first open() already fails with an error that is no UnicodeDecodeError;
\* a readable file decodes as utf-8
_read_file_with_encoding_detection(f, text) ==
    IF f.readable THEN Ok(text) ELSE OSError

LowConfidenceAboveHalf == Q(3, 5)

LowConfidence == Q(1, 5)      \* 0.2

\* any exception of the read ends the primary path with an empty list
_parse_with_formatter(read, detection) ==
    IF ~read.ok THEN <<>>
    ELSE IF QLt(detection.confidence, LowConfidence) THEN <<>>
    ELSE parse_to_segments(read.v, detection.format)

\* the legacy parser that the suffix selects
LegacyParser(f, text) ==
    IF Lower(f.suffix) = ".vtt" THEN "_parse_vtt"
    ELSE IF Lower(f.suffix) = ".srt" THEN "_parse_srt"
    ELSE "_parse_auto_detect"

\* the fallback: its segments, or the ValueError that wraps any exception
Fallback(f, text) ==
    IF ~f.readable THEN ValueError
    ELSE IF LegacyParser(f, text) = "_parse_vtt" THEN Ok(_parse_vtt(text))
    ELSE IF LegacyParser(f, text) = "_parse_srt" THEN Ok(_parse_srt(text))
    ELSE _parse_auto_detect(text)

\* what the caller does with the list that parse returned
LoadUnvalidated(segs) == segs

LoadTranscript(segs) == validate_segments(segs)

InitP ==
    /\ Constructed
    /\ NoPair
    /\ file \in Files
    /\ IsShape(shape, MaxFileLines) \/ shape \in TaggedShapes
    /\ ~file.exists => shape.kind = "free" /\ Len(shape.parts) = 0
    /\ content = Render(shape)
    /\ measure = <<>>
    /\ detected = <<>>
    /\ dpc = "idle"
    /\ segments = <<>>
    /\ cleaned = <<>>
    /\ again = <<>>
    /\ vpc = "idle"
    /\ ppc = "call"
    /\ parsed = <<>>
    /\ raised = ""
    /\ route = <<>>
    /\ loaded = <<>>
    /\ reading = <<>>
    /\ NoTimes
    /\ NoFormatter

\* the checks before any reading, the size of the file left unchecked
CheckFileAnySize ==
    /\ ppc = "call"
    /\ IF ~file.exists THEN ppc' = "raised" /\ raised' = "FileNotFoundError"
       ELSE ppc' = "primary" /\ raised' = raised
    /\ UNCHANGED <<file, parsed, route, loaded, reading>>
    /\ UNCHANGED vvars
    /\ UNCHANGED tvars
    /\ UNCHANGED cvars
    /\ UNCHANGED evars
    /\ UNCHANGED fvars
    /\ UNCHANGED dvars

\* the checks before any reading
CheckFile ==
    /\ ppc = "call"
    /\ IF ~file.exists THEN ppc' = "raised" /\ raised' = "FileNotFoundError"
       ELSE IF Len(content) = 0 THEN ppc' = "raised" /\ raised' = "ValueError"
       ELSE ppc' = "primary" /\ raised' = raised
    /\ UNCHANGED <<file, parsed, route, loaded, reading>>
    /\ UNCHANGED vvars
    /\ UNCHANGED tvars
    /\ UNCHANGED cvars
    /\ UNCHANGED evars
    /\ UNCHANGED fvars
    /\ UNCHANGED dvars

\* the primary path with a fallback parser run whatever it produced
PrimaryThenFallback ==
    /\ ppc = "primary"
    /\ \E read \in {_read_file_with_encoding_detection(file, content)} :
          /\ detected' = IF read.ok THEN detect_format(read.v) ELSE detected
          /\ parsed' = _parse_with_formatter(read, detected')
          /\ reading' = read
    /\ ppc' = "fallback"
    /\ route' = Append(route, "_parse_with_formatter")
    /\ UNCHANGED <<file, raised, loaded>>
    /\ UNCHANGED <<content, dpc, shape, measure>>
    /\ UNCHANGED vvars
    /\ UNCHANGED tvars
    /\ UNCHANGED cvars
    /\ UNCHANGED evars
    /\ UNCHANGED fvars

\* segments = TranscriptParser._parse_with_formatter(file_path)
Primary ==
    /\ ppc = "primary"
    /\ \E read \in {_read_file_with_encoding_detection(file, content)} :
          /\ detected' = IF read.ok THEN detect_format(read.v) ELSE detected
          /\ parsed' = _parse_with_formatter(read, detected')
          /\ reading' = read
    /\ ppc' = IF parsed' # <<>> THEN "returned" ELSE "fallback"
    /\ route' = Append(route, "_parse_with_formatter")
    /\ UNCHANGED <<file, raised, loaded>>
    /\ UNCHANGED <<content, dpc, shape, measure>>
    /\ UNCHANGED vvars
    /\ UNCHANGED tvars
    /\ UNCHANGED cvars
    /\ UNCHANGED evars
    /\ UNCHANGED fvars

\* the legacy parser by extension, any exception wrapped in a ValueError
Legacy ==
    /\ ppc = "fallback"
    /\ \E outcome \in {Fallback(file, content)} :
          IF outcome.ok
          THEN parsed' = outcome.v /\ ppc' = "returned" /\ raised' = raised
          ELSE parsed' = parsed /\ ppc' = "raised" /\ raised' = "ValueError"
    /\ route' = Append(route, LegacyParser(file, content))
    /\ UNCHANGED <<file, loaded, reading>>
    /\ UNCHANGED vvars
    /\ UNCHANGED tvars
    /\ UNCHANGED cvars
    /\ UNCHANGED evars
    /\ UNCHANGED fvars
    /\ UNCHANGED dvars

\* segments = TranscriptParser.validate_segments(segments), in the caller
Load ==
    /\ ppc = "returned"
    /\ loaded' = LoadTranscript(parsed)
    /\ ppc' = "loaded"
    /\ UNCHANGED <<file, parsed, raised, route, reading>>
    /\ UNCHANGED vvars
    /\ UNCHANGED tvars
    /\ UNCHANGED cvars
    /\ UNCHANGED evars
    /\ UNCHANGED fvars
    /\ UNCHANGED dvars

NextP == CheckFile \/ Primary \/ Legacy \/ Load

SpecP == InitP /\ [][NextP]_vars

(***************************************************************************)
(* TranscriptFormatter.segments_to_vtt.  A time to be written is a whole    *)
(* number of thirds of a millisecond, so that the three decimals of the     *)
(* written time are a rounding; a parsed time is in milliseconds.           *)
(***************************************************************************)
\* f"{n:0<width>d}"
ZeroPadded(n, width) == [k \in 1..(width - Len(DecimalStr(n))) |-> "0"] \o DecimalStr(n)

\* f"{hours:02d}:{minutes:02d}:{secs:06.3f}" with secs in milliseconds
VttTime(hours, minutes, ms) ==
    ZeroPadded(hours, 2) \o <<":">> \o ZeroPadded(minutes, 2) \o <<":">>
        \o ZeroPadded(ms \div 1000, 2) \o <<".">> \o ZeroPadded(ms % 1000, 3)

\* secs keeps its fraction, which .3f cuts off
_seconds_to_vtt_time_truncated(seconds) ==
    VttTime(seconds \div 10800000, (seconds % 10800000) \div 180000,
            (seconds % 180000) \div 3)

\* secs = seconds % 60, which .3f rounds to the nearest millisecond
_seconds_to_vtt_time(seconds) ==
    VttTime(seconds \div 10800000, (seconds % 10800000) \div 180000,
            ((seconds % 180000) + 1) \div 3)

\* the three lines that a segment adds to vtt_lines
WrittenCue(segment) ==
    << _seconds_to_vtt_time(segment.start) \o Arrow \o _seconds_to_vtt_time(segment.end),
       segment.text,
       <<>> >>

segments_to_vtt(segs) ==
    JoinLines(<<WEBVTT, <<>>>> \o Flatten([i \in 1..Len(segs) |-> WrittenCue(segs[i])]))

(***************************************************************************)
(* Segments written as WebVTT and parsed again                             *)
(***************************************************************************)
MaxWritten == 2      \* segments of a list to be written

TextArrow == <<"a", " ", "-", "-", ">", " ", "b">>

\* 0 s, 1.500667 s, 59.999667 s, 1 h 2 min, 100 h, in thirds of a millisecond
WrittenTimes == {0, 4502, 179999, 11160000, 1080000000}

\* segments of the data model: start >= 0, end > start, a stripped line of text
Writable ==
    {TranscriptSegment(start, end, text) :
        start \in WrittenTimes, end \in WrittenTimes, text \in {TextHi, TextArrow}}
    \ {seg \in [start : WrittenTimes, end : WrittenTimes, text : {TextHi, TextArrow}] :
          seg.end <= seg.start}

InitR ==
    /\ Constructed
    /\ NoPair
    /\ original \in ListsUpTo(Writable, MaxWritten)
    /\ as_format = "VTT"
    /\ built = <<>>
    /\ fpc = "call"
    /\ content = <<>>
    /\ detected = <<>>
    /\ dpc = "idle"
    /\ shape = <<>>
    /\ measure = <<>>
    /\ segments = <<>>
    /\ cleaned = <<>>
    /\ again = <<>>
    /\ vpc = "idle"
    /\ NoParse
    /\ NoTimes

\* content = formatter.segments_to_vtt(original)
ToVtt ==
    /\ fpc = "call"
    /\ content' = segments_to_vtt(original)
    /\ fpc' = "written"
    /\ UNCHANGED <<as_format, built, original>>
    /\ UNCHANGED <<detected, dpc, shape, measure>>
    /\ UNCHANGED vvars
    /\ UNCHANGED pvars
    /\ UNCHANGED tvars
    /\ UNCHANGED cvars
    /\ UNCHANGED evars

\* built = formatter.parse_to_segments(content, TranscriptFormat.VTT)
Reparse ==
    /\ fpc = "written"
    /\ built' = parse_to_segments(content, as_format)
    /\ fpc' = "parsed"
    /\ UNCHANGED <<as_format, original>>
    /\ UNCHANGED dvars
    /\ UNCHANGED vvars
    /\ UNCHANGED pvars
    /\ UNCHANGED tvars
    /\ UNCHANGED cvars
    /\ UNCHANGED evars

NextR == ToVtt \/ Reparse

SpecR == InitR /\ [][NextR]_vars

(***************************************************************************)
(* Calls of parse_to_segments with a given format                          *)
(***************************************************************************)
LineNoStamp == <<"N", "o", "n", "e">>
LineBadStamp == <<"0", ":", "x", "x", " ", "-", "-", ">", " ", "0", ":", "0", "5">>
LineTrailing == <<"0", ":", "0", "1", "x", " ", "-", "-", ">", " ", "0", ":", "0", "3">>

\* a line that is no timestamp line, one whose first time is no time, and one
\* whose first time is followed by a letter
BadStamps == {LineNoStamp, LineBadStamp, LineTrailing}

\* cues and blocks of one text line, their timestamp lines good or bad
MixedCues == [time : {LineCue1, LineCue2} \cup BadStamps, n : {1}]

MixedBlocks == [time : {LineSrt1, LineSrt2} \cup BadStamps, n : {1}]

MixedVttShapes ==
    {Shape("vtt", meta, cues) : meta \in 0..MaxMeta, cues \in ListsUpTo(MixedCues, MaxCues)}

MixedSrtShapes == {Shape("srt", 0, blocks) : blocks \in ListsUpTo(MixedBlocks, MaxCues)}

LineYoutubeMs == <<"0", ":", "3", "0", ".", "0", "0", "0", " ", "Y", "o">>

\* lines with a timestamp of minutes and seconds, or of milliseconds, before
\* their text, and lines without one
StampedShapes ==
    {Shape("free", 0, lines) :
        lines \in ListsUpTo({LineYoutube1, LineYoutube2, LineYoutubeMs, LineSentence}, MaxLines)}

LineAsk == <<"H", "i", "!", " ", "Y", "o", "?">>
LineLong == <<"a", " ", "b", " ", "c", " ", "d", " ", "e">>

\* prose: lines that end a sentence, hold two sentences, or run on
ProseShapes ==
    {Shape("free", 0, lines) :
        lines \in ListsUpTo({LineSentence, LineAsk, LineLong, LineSpace}, MaxLines)}

InitF ==
    /\ Constructed
    /\ NoPair
    /\ \/ shape \in MixedVttShapes /\ as_format = "VTT"
       \/ shape \in MixedSrtShapes /\ as_format = "SRT"
       \/ shape \in FreeShapes(MaxLines) \cup StampedShapes /\ as_format = "YOUTUBE_COPY_PASTE"
       \/ shape \in WrittenShapes /\ as_format = "JSON_TIMESTAMPS"
       \/ shape \in FreeShapes(MaxLines) \cup ProseShapes /\ as_format = "PLAIN_TEXT"
    /\ content = Render(shape)
    /\ built = <<>>
    /\ fpc = "call"
    /\ original = <<>>
    /\ detected = <<>>
    /\ dpc = "idle"
    /\ measure = <<>>
    /\ segments = <<>>
    /\ cleaned = <<>>
    /\ again = <<>>
    /\ vpc = "idle"
    /\ NoParse
    /\ NoTimes

\* built = formatter.parse_to_segments(content, as_format)
ParseTo ==
    /\ fpc = "call"
    /\ built' = parse_to_segments(content, as_format)
    /\ fpc' = "parsed"
    /\ UNCHANGED <<as_format, original>>
    /\ UNCHANGED dvars
    /\ UNCHANGED vvars
    /\ UNCHANGED pvars
    /\ UNCHANGED tvars
    /\ UNCHANGED cvars
    /\ UNCHANGED evars

NextF == ParseTo

SpecF == InitF /\ [][NextF]_vars

(***************************************************************************)
(* Calls of the time parsers                                               *)
(***************************************************************************)
\* times of the accepted shapes, the fraction after '.' or ','
TimeBodies ==
    { <<"3", "0">>,
      <<"5">>,
      <<"4", "5", ".", "1", "2", "3">>,
      <<"1", "2", ":", "3", "4", ".", "5", "6", "7">>,
      <<"0", "1", ":", "2", "3", ":", "4", "5", ".", "6", "7", "8">>,
      <<"1", ":", "3", "0">>,
      <<"1", ":", "3", "0", ".", "5">>,
      <<"1", ":", "3", "0", ".", "5", "0", "0">>,
      <<"0", "0", ":", "0", "0", ":", "0", "1", ",", "5", "0">>,
      <<"0", "0", ":", "0", "0", ":", "0", "1", ",", "5", "0", "0">> }

\* nothing, a letter, a colon too many
NoTimeBodies == {<<>>, <<"x">>, <<"1", ":", "2", ":", "3", ":", "4">>}

\* a token: a time or none, a sign or a blank before it, a letter or a blank after it
Tokens ==
    {before \o body \o after :
        before \in {<<>>, <<"-">>, <<" ">>},
        body \in TimeBodies \cup NoTimeBodies,
        after \in {<<>>, <<"x">>, <<" ">>}}

InitT ==
    /\ Constructed
    /\ NoPair
    /\ token \in Tokens
    /\ timed = <<>>
    /\ tpc = "call"
    /\ content = <<>>
    /\ detected = <<>>
    /\ dpc = "idle"
    /\ shape = <<>>
    /\ measure = <<>>
    /\ segments = <<>>
    /\ cleaned = <<>>
    /\ again = <<>>
    /\ vpc = "idle"
    /\ NoParse
    /\ NoFormatter

\* TranscriptParser._time_to_seconds(token) and formatter._parse_time_string(token)
ParseTimes ==
    /\ tpc = "call"
    /\ timed' = [legacy |-> _time_to_seconds(token), primary |-> _parse_time_string(token)]
    /\ tpc' = "done"
    /\ UNCHANGED token
    /\ UNCHANGED dvars
    /\ UNCHANGED vvars
    /\ UNCHANGED pvars
    /\ UNCHANGED fvars
    /\ UNCHANGED cvars
    /\ UNCHANGED evars

NextT == ParseTimes

SpecT == InitT /\ [][NextT]_vars

(***************************************************************************)
(* Concurrent callers of one formatter.  A caller begins a call with its    *)
(* arguments and returns from it later; between the two, other callers may  *)
(* begin and return.  A call reads its arguments and self.youtube_patterns. *)
(***************************************************************************)
Callers == {"one", "other"}    \* threads that call the formatter
MaxCalls == 3        \* calls begun by all of them together

CallTexts == {JoinLines(<<LineYoutube1, LineYoutube2>>), LineSentence}

CallFormats == {"YOUTUBE_COPY_PASTE", "PLAIN_TEXT"}

DetectCalls == [op : {"detect_format"}, text : CallTexts, format : {"UNKNOWN"}]

ParseCalls == [op : {"parse_to_segments"}, text : CallTexts, format : CallFormats]

\* what a call returns, the formatter being as it is
Returned(call) ==
    IF call.op = "detect_format" THEN detect_format(call.text)
    ELSE parse_to_segments(call.text, call.format)

NoCall == [pc |-> "idle", call |-> <<>>, entered |-> 0, result |-> <<>>]

InitC ==
    /\ youtube_patterns = YoutubeStampPatterns
    /\ calls = [c \in Callers |-> NoCall]
    /\ made = 0
    /\ alone = <<>>
    /\ content = <<>>
    /\ detected = <<>>
    /\ dpc = "idle"
    /\ shape = <<>>
    /\ measure = <<>>
    /\ segments = <<>>
    /\ cleaned = <<>>
    /\ again = <<>>
    /\ vpc = "idle"
    /\ NoParse
    /\ NoTimes
    /\ NoFormatter
    /\ NoPair

\* before the callers start, each call is made alone on the fresh formatter
RunAlone ==
    /\ alone = <<>>
    /\ alone' = [call \in DetectCalls \cup ParseCalls |-> Returned(call)]
    /\ UNCHANGED <<youtube_patterns, calls, made>>
    /\ UNCHANGED <<dvars, vvars, pvars, tvars, fvars, evars>>

\* caller c is in the call from now on
Begin(c, call) ==
    /\ alone # <<>>
    /\ calls[c].pc # "running"
    /\ made < MaxCalls
    /\ calls' = [calls EXCEPT ![c] =
                    [pc |-> "running", call |-> call, entered |-> made + 1, result |-> <<>>]]
    /\ made' = made + 1
    /\ UNCHANGED <<youtube_patterns, alone>>
    /\ UNCHANGED <<dvars, vvars, pvars, tvars, fvars, evars>>

\* caller c begins formatter.detect_format(text)
CallDetect(c) == \E call \in DetectCalls : Begin(c, call)

\* caller c begins formatter.parse_to_segments(text, format)
CallParse(c) == \E call \in ParseCalls : Begin(c, call)

\* detect_format returns to caller c
ReturnDetect(c) ==
    /\ calls[c].pc = "running"
    /\ calls[c].call.op = "detect_format"
    /\ calls' = [calls EXCEPT ![c].pc = "done", ![c].result = detect_format(calls[c].call.text)]
    /\ UNCHANGED <<youtube_patterns, made, alone>>
    /\ UNCHANGED <<dvars, vvars, pvars, tvars, fvars, evars>>

\* a parse_to_segments that uses up the first of the instance's patterns
ReturnParseConsuming(c) ==
    /\ calls[c].pc = "running"
    /\ calls[c].call.op = "parse_to_segments"
    /\ calls' = [calls EXCEPT ![c].pc = "done",
                              ![c].result = parse_to_segments(calls[c].call.text, calls[c].call.format)]
    /\ youtube_patterns' = IF youtube_patterns = <<>> THEN <<>> ELSE Tail(youtube_patterns)
    /\ UNCHANGED <<made, alone>>
    /\ UNCHANGED <<dvars, vvars, pvars, tvars, fvars, evars>>

\* parse_to_segments returns to caller c
ReturnParse(c) ==
    /\ calls[c].pc = "running"
    /\ calls[c].call.op = "parse_to_segments"
    /\ calls' = [calls EXCEPT ![c].pc = "done",
                              ![c].result = parse_to_segments(calls[c].call.text, calls[c].call.format)]
    /\ UNCHANGED <<youtube_patterns, made, alone>>
    /\ UNCHANGED <<dvars, vvars, pvars, tvars, fvars, evars>>

NextC ==
    \/ RunAlone
    \/ \E c \in Callers :
           CallDetect(c) \/ CallParse(c) \/ ReturnDetect(c) \/ ReturnParse(c)

SpecC == InitC /\ [][NextC]_vars

(***************************************************************************)
(* The two WebVTT parsers on one text.  The text starts with the header     *)
(* block; its cues have times of hours, minutes, seconds and milliseconds   *)
(* and plain text.  A returned time is the milliseconds it stands for and   *)
(* the double it is.                                                        *)
(***************************************************************************)
LineCueMs == <<"0", "0", ":", "0", "0", ":", "0", "1", ".", "1", "1", "8", " ", "-", "-", ">", " ", "0", "0", ":", "0", "0", ":", "0", "3", ".", "5", "0", "0">>
LineCueLong == <<"0", "1", ":", "0", "0", ":", "0", "1", ".", "1", "2", "8", " ", "-", "-", ">", " ", "0", "1", ":", "2", "3", ":", "4", "5", ".", "6", "7", "8">>
LineCueSet == LineCue2 \o <<" ", "a", "l", "i", "g", "n", ":", "s", "t", "a", "r", "t">>
LineId == <<"i", "n", "t", "r", "o">>

\* cues with whole seconds, with milliseconds, with hours, with cue settings
\* behind the end time, and with a cue identifier before the timestamp line
PlainCues ==
    [time : {LineCue1, LineCueMs, LineCueLong, LineCueSet}, n : 1..2, id : {FALSE}]
    \cup [time : {LineCue2}, n : {1}, id : {TRUE}]

\* a cue block: the blank line before it, its identifier if it has one, its
\* timestamp line, its text lines
PlainCue(c) == <<<<>>>> \o (IF c.id THEN <<LineId>> ELSE <<>>) \o <<c.time>> \o CueText(c.n)

PlainVttLines(meta, cues) ==
    VttHeader(meta) \o Flatten([i \in 1..Len(cues) |-> PlainCue(cues[i])])

PlainVttShapes ==
    {Shape("plain vtt", meta, cues) : meta \in 0..MaxMeta, cues \in ListsUpTo(PlainCues, MaxCues) \ {<<>>}}

Float(t, double) == [ms |-> t, double |-> double]

\* the segments as the parser returns them, Of(t) being the double that its
\* time parser returns for t milliseconds
Returning(segs, Of(_)) ==
    [k \in 1..Len(segs) |->
        TranscriptSegment(Float(segs[k].start, Of(segs[k].start)),
                          Float(segs[k].end, Of(segs[k].end)), segs[k].text)]

InitE ==
    /\ Constructed
    /\ shape \in PlainVttShapes
    /\ content = JoinLines(PlainVttLines(shape.meta, shape.parts))
    /\ both = <<>>
    /\ epc = "call"
    /\ detected = <<>>
    /\ dpc = "idle"
    /\ measure = <<>>
    /\ segments = <<>>
    /\ cleaned = <<>>
    /\ again = <<>>
    /\ vpc = "idle"
    /\ NoParse
    /\ NoTimes
    /\ NoFormatter

\* both = (formatter._parse_vtt_segments(content), TranscriptParser._parse_vtt
\* of a file with that content)
ParseBoth ==
    /\ epc = "call"
    /\ both' = [primary |-> Returning(_parse_vtt_segments(content), PrimaryDouble),
                legacy |-> Returning(_parse_vtt(content), LegacyDouble)]
    /\ epc' = "done"
    /\ UNCHANGED <<dvars, vvars, pvars, tvars, fvars>>
    /\ UNCHANGED cvars

NextE == ParseBoth

SpecE == InitE /\ [][NextE]_vars

(***************************************************************************)
(* Properties of validate_segments                                         *)
(***************************************************************************)
SortedByStart(segs) ==
    \A i \in 1..Len(segs) : \A j \in 1..Len(segs) : i < j => segs[i].start <= segs[j].start

WellFormedSegment(seg) ==
    /\ seg.start >= 0
    /\ seg.end > seg.start
    /\ seg.text # <<>>
    /\ ~IsSpace(seg.text[1])
    /\ ~IsSpace(seg.text[Len(seg.text)])

Qualifies(e) ==
    /\ {"start", "end", "text"} \subseteq DOMAIN e
    /\ e.start >= 0
    /\ e.end >= 0
    /\ e.start < e.end
    /\ \E k \in 1..Len(e.text) : ~IsSpace(e.text[k])

Occurrences(segs, r) == Cardinality({i \in 1..Len(segs) : segs[i] = r})

Survivors(segs, r) ==
    Cardinality({i \in 1..Len(segs) :
        /\ Qualifies(segs[i])
        /\ r = [start |-> segs[i].start, end |-> segs[i].end, text |-> Strip(segs[i].text)]})

C5_Idempotent ==
    vpc = "revalidated" =>
        /\ again = cleaned
        /\ (segments = <<>> => cleaned = <<>>)

\* two kept entries share their start and differ otherwise
C5_Witness ==
    /\ vpc = "revalidated"
    /\ Len(cleaned) >= 2
    /\ \E i \in 1..(Len(cleaned) - 1) :
          cleaned[i].start = cleaned[i + 1].start /\ cleaned[i] # cleaned[i + 1]

(***************************************************************************)
(* Properties of detect_format                                             *)
(***************************************************************************)
FormatTags == {"VTT", "SRT", "YOUTUBE_COPY_PASTE", "PLAIN_TEXT", "JSON_TIMESTAMPS", "UNKNOWN"}

IsBlank(text) == \A i \in 1..Len(text) : IsSpace(text[i])

\* C6: detect_format returns one format tag and a confidence within [0, 1];
\* (UNKNOWN, 0.0) for an empty or whitespace-only text, and never UNKNOWN for
\* a text with a non-whitespace character.
C6_OneTagConfidenceInUnitInterval ==
    dpc = "done" =>
        /\ detected.format \in FormatTags
        /\ QLe(Q(0, 1), detected.confidence)
        /\ QLe(detected.confidence, Q(1, 1))
        /\ (IsBlank(content) => detected = Result("UNKNOWN", Q(0, 1)))
        /\ (~IsBlank(content) => detected.format # "UNKNOWN")

\* a text of blank lines only has been classified
C6_Witness ==
    /\ dpc = "done"
    /\ Len(content) >= 2
    /\ IsBlank(content)
    /\ detected.format = "UNKNOWN"

\* C7: the formats are tried in the order VTT, SRT, YOUTUBE_COPY_PASTE,
\* JSON_TIMESTAMPS; the first whose confidence meets its threshold (> 0.6,
\* >= 0.7, > 0.6, > 0.6) is returned with that confidence, whether or not a
\* later one qualifies too; a non-blank text none accepts is (PLAIN_TEXT, 0.5).
C7_FirstQualifyingFormatWins ==
    (dpc = "done" /\ ~IsBlank(content)) =>
        LET m == measure
        IN  /\ m.vttOk => detected = Result("VTT", m.vtt)
            /\ (~m.vttOk /\ m.srtOk) => detected = Result("SRT", m.srt)
            /\ (~m.vttOk /\ ~m.srtOk /\ m.youtubeOk)
                  => detected = Result("YOUTUBE_COPY_PASTE", m.youtube)
            /\ (~m.vttOk /\ ~m.srtOk /\ ~m.youtubeOk /\ m.jsonOk)
                  => detected = Result("JSON_TIMESTAMPS", m.json)
            /\ (~m.vttOk /\ ~m.srtOk /\ ~m.youtubeOk /\ ~m.jsonOk)
                  => detected = Result("PLAIN_TEXT", Q(1, 2))

\* SRT is returned for a text the YouTube check would accept as well
C7_Witness ==
    /\ dpc = "done"
    /\ detected.format = "SRT"
    /\ measure.youtubeOk

\* the texts C8 speaks of: the WEBVTT line, then cues
IsHeaderAndCues == shape.kind = "vtt" /\ shape.meta = 0

C9_SrtBlocksDetectedAsSrt ==
    (dpc = "done" /\ shape.kind = "srt") =>
        /\ detected.format = "SRT"
        /\ QLe(Q(7, 10), detected.confidence)

\* a single block with one text line
C9_Witness ==
    /\ dpc = "done"
    /\ shape.kind = "srt"
    /\ Len(shape.parts) = 1
    /\ shape.parts[1].n = 1
    /\ detected.format = "SRT"

\* C10 as stated: for a text that is neither VTT nor SRT, with any number
\* (>= 1) of non-empty lines, the YouTube confidence is matching lines over
\* non-empty lines, and a ratio > 0.6 gives YOUTUBE_COPY_PASTE with it.
C10_YoutubeRatioForAnyLineCount ==
    (dpc = "done" /\ ~IsBlank(content)) =>
        LET m == measure
            ratio == Q(m.prefixed, m.count)
        IN  (~m.vttOk /\ ~m.srtOk) =>
                /\ m.youtube = ratio
                /\ QLt(Q(6, 10), ratio) => detected = Result("YOUTUBE_COPY_PASTE", ratio)

\* C10 amended: this holds for two or more non-empty lines; a text with one
\* non-empty line has YouTube confidence 0.0 and is never YOUTUBE_COPY_PASTE.
C10_YoutubeRatioFromTwoLines ==
    (dpc = "done" /\ ~IsBlank(content)) =>
        LET m == measure
            ratio == Q(m.prefixed, m.count)
        IN  (~m.vttOk /\ ~m.srtOk) =>
                /\ m.count >= 2 =>
                      /\ m.youtube = ratio
                      /\ QLt(Q(6, 10), ratio)
                            => detected = Result("YOUTUBE_COPY_PASTE", ratio)
                      /\ ~QLt(Q(6, 10), ratio) => detected.format # "YOUTUBE_COPY_PASTE"
                /\ m.count = 1 =>
                      /\ m.youtube = Q(0, 1)
                      /\ detected.format # "YOUTUBE_COPY_PASTE"

\* two matching lines and one that does not match: confidence 2/3
C10_Witness ==
    /\ dpc = "done"
    /\ ~IsBlank(content)
    /\ measure.count = 3
    /\ measure.prefixed = 2
    /\ detected = Result("YOUTUBE_COPY_PASTE", Q(2, 3))

(***************************************************************************)
(* Properties of parse                                                     *)
(***************************************************************************)
\* the list that the parser which ran last hands back
RawOutput ==
    IF route[Len(route)] = "_parse_with_formatter" THEN parse_to_segments(content, detected.format)
    ELSE IF route[Len(route)] = "_parse_vtt" THEN _parse_vtt(content)
    ELSE IF route[Len(route)] = "_parse_srt" THEN _parse_srt(content)
    ELSE _parse_auto_detect(content).v

CueTimes(line) == IF line = LineCue1 THEN <<1000, 3000>> ELSE <<4000, 6000>>

\* the segments that the cues of a WebVTT file stand for
CueSegments(cues) ==
    [i \in 1..Len(cues) |->
        TranscriptSegment(CueTimes(cues[i].time)[1], CueTimes(cues[i].time)[2],
                          JoinSpace(CueText(cues[i].n)))]

\* C3 as stated: for a WebVTT file of a header block (WEBVTT, optional
\* metadata lines) and n >= 1 cue blocks, whatever its extension, parse
\* returns exactly n segments, the i-th with the i-th cue's start, end and
\* text lines joined by single spaces.
C3_WebVttFileYieldsItsCues ==
    (shape.kind = "vtt" /\ file.readable /\ ppc \in {"returned", "raised", "loaded"}) =>
        /\ ppc # "raised"
        /\ parsed = CueSegments(shape.parts)

\* what the primary path makes of the file: nothing when the read raises,
\* when the confidence is below 0.2 or when the matching parser finds nothing
PrimaryOutput ==
    IF ~file.readable THEN <<>>
    ELSE IF QLt(detected.confidence, Q(2, 10)) THEN <<>>
    ELSE parse_to_segments(content, detected.format)

\* C11: in parse the primary path (decode, detect, matching parser) runs
\* first; a fallback parser runs only after the primary path produced no
\* segments (confidence < 0.2, an empty list of the matching parser, or an
\* exception, which is absorbed); a non-empty list of the primary path is
\* returned as it is and no fallback parser runs.
C11_PrimaryFirstFallbackOnlyWhenEmpty ==
    /\ Len(route) <= 2
    /\ route # <<>> => route[1] = "_parse_with_formatter"
    /\ ppc \in {"fallback", "returned", "loaded"} => route # <<>>
    /\ Len(route) = 2 =>
          /\ route[2] \in {"_parse_vtt", "_parse_srt", "_parse_auto_detect"}
          /\ PrimaryOutput = <<>>
    /\ Len(route) = 1 =>
          /\ raised = ""
          /\ parsed = PrimaryOutput
          /\ parsed = <<>> => ppc = "fallback"
          /\ parsed # <<>> => ppc \in {"returned", "loaded"}

\* a readable file of blank characters: confidence 0.0, so the fallback ran
C11_Witness ==
    /\ Len(route) = 2
    /\ file.readable
    /\ QLt(detected.confidence, Q(2, 10))

\* a file whose primary path found segments: they were returned, no fallback
C11_WitnessPrimary ==
    /\ ppc = "returned"
    /\ route = <<"_parse_with_formatter">>
    /\ parsed # <<>>

\* the first characters of the file, as the sniff reads them
Sniffed == SubSeq(content, 1, IF Len(content) < 1000 THEN Len(content) ELSE 1000)

\* the token WEBVTT somewhere in the sniffed characters
SniffsVtt ==
    \E i \in 1..(Len(Sniffed) - 5) : SubSeq(Sniffed, i, i + 5) = <<"W", "E", "B", "V", "T", "T">>

\* a line of digits followed by a line starting with an SRT timestamp pair
SniffsSrt == SearchAtLineStart(SrtLead, Sniffed)

\* the fallback parser came back with this list
FallbackReturned(segs) == ppc \in {"returned", "loaded"} /\ parsed = segs

\* C12: in the fallback path a .vtt extension selects the legacy VTT parser
\* and a .srt extension the legacy SRT parser; for any other extension the
\* first 1000 characters are sniffed: the token WEBVTT selects the legacy VTT
\* parser, otherwise an SRT-shaped block start selects the legacy SRT
\* parser, and when neither matches parse fails with ValueError and
\* returns no segments.
C12_FallbackByExtensionThenSniff ==
    Len(route) = 2 =>
        /\ Lower(file.suffix) = ".vtt" =>
              /\ route[2] = "_parse_vtt"
              /\ file.readable => FallbackReturned(_parse_vtt(content))
        /\ Lower(file.suffix) = ".srt" =>
              /\ route[2] = "_parse_srt"
              /\ file.readable => FallbackReturned(_parse_srt(content))
        /\ Lower(file.suffix) \notin {".vtt", ".srt"} =>
              /\ route[2] = "_parse_auto_detect"
              /\ (file.readable /\ SniffsVtt) => FallbackReturned(_parse_vtt(content))
              /\ (file.readable /\ ~SniffsVtt /\ SniffsSrt) =>
                    FallbackReturned(_parse_srt(content))
              /\ (file.readable /\ ~SniffsVtt /\ ~SniffsSrt) =>
                    ppc = "raised" /\ raised = "ValueError" /\ parsed = <<>>

\* a readable .txt file that no sniff recognises: parse raised ValueError
C12_Witness ==
    /\ Len(route) = 2
    /\ file.readable
    /\ Lower(file.suffix) = ".txt"
    /\ ppc = "raised"
    /\ raised = "ValueError"

\* a readable .txt file with the token WEBVTT went to the legacy VTT parser
C12_WitnessSniffVtt ==
    /\ Len(route) = 2
    /\ file.readable
    /\ Lower(file.suffix) = ".txt"
    /\ SniffsVtt
    /\ ppc = "returned"

\* a readable .txt file with an SRT block start went to the legacy SRT parser
C12_WitnessSniffSrt ==
    /\ Len(route) = 2
    /\ file.readable
    /\ Lower(file.suffix) = ".txt"
    /\ SniffsSrt
    /\ ppc = "returned"

\* parse was left by this exception before anything was read: no parser
\* ran, nothing was detected, no list came back
RaisedAtOnce(exception) ==
    /\ ppc = "raised"
    /\ raised = exception
    /\ route = <<>>
    /\ detected = <<>>
    /\ parsed = <<>>
    /\ loaded = <<>>

\* C13: parse fails with FileNotFoundError when the path does not exist and
\* with ValueError when the file has zero bytes; in both cases before any
\* decoding, detection or parsing, and no segment list is returned.
C13_MissingOrEmptyFileRaisesAtOnce ==
    ppc # "call" =>
        /\ ~file.exists => RaisedAtOnce("FileNotFoundError")
        /\ (file.exists /\ Len(content) = 0) => RaisedAtOnce("ValueError")
        /\ (file.exists /\ Len(content) > 0) => route # <<>> \/ ppc = "primary"

\* a file of zero bytes was given and parse raised ValueError
C13_Witness ==
    /\ file.exists
    /\ Len(content) = 0
    /\ RaisedAtOnce("ValueError")

\* a path with no file was given and parse raised FileNotFoundError
C13_WitnessMissing ==
    /\ ~file.exists
    /\ RaisedAtOnce("FileNotFoundError")

(***************************************************************************)
(* Properties of segments_to_vtt                                           *)
(***************************************************************************)
\* a parsed time, in milliseconds, is the written time, in thirds of a
\* millisecond, rounded to the millisecond
RoundsTo(seconds, ms) == 3 * ms - seconds \in {0 - 1, 0, 1}

\* the parsed segment has the start, end and text of the written one
Reproduces(seg, segment) ==
    /\ RoundsTo(segment.start, seg.start)
    /\ RoundsTo(segment.end, seg.end)
    /\ seg.text = segment.text

\* the parsed list has the segments of the written one, in order
ReproducesAll(segs, written) ==
    /\ Len(segs) = Len(written)
    /\ \A i \in 1..Len(written) : Reproduces(segs[i], written[i])

\* C14 as stated: for every list S of segments of the data model,
\* parse_to_segments(segments_to_vtt(S), VTT) returns a list of the same
\* length and order whose start, end and text equal those of S up to
\* millisecond rounding.
C14_RoundTripReproduces ==
    fpc = "parsed" => ReproducesAll(built, original)

\* the segments whose times are below 100 hours
BelowHundredHours(segs) ==
    SelectSeq(segs, LAMBDA seg : seg.start < 1080000000 /\ seg.end < 1080000000)

\* C14: parse_to_segments(segments_to_vtt(S), VTT) returns, in order and up
\* to millisecond rounding, the segments of S whose start and end are below
\* 100 hours; a segment with a time of 100 hours or more is written with a
\* three-digit hour, which the time grammar rejects, and is left out.
C14_RoundTripBelowHundredHours ==
    fpc = "parsed" => ReproducesAll(built, BelowHundredHours(original))

\* two segments came back, one of them with a time that was rounded up to
\* second 60 of its minute
C14_Witness ==
    /\ fpc = "parsed"
    /\ Len(original) = 2
    /\ Len(built) = 2
    /\ original[1].end = 179999
    /\ built[1].end = 60000
    /\ built[2].text = TextArrow

(***************************************************************************)
(* Properties of parse_to_segments                                         *)
(***************************************************************************)
\* start and end of a well-formed timestamp line, in milliseconds
StampTimes(line) == IF line \in {LineCue1, LineSrt1} THEN <<1000, 3000>> ELSE <<4000, 6000>>

\* the segment that a well-formed cue or block stands for
StampedSegment(cue) ==
    TranscriptSegment(StampTimes(cue.time)[1], StampTimes(cue.time)[2], JoinSpace(CueText(cue.n)))

\* the segments of the cues or blocks that are picked, in input order
SegmentsOf(cues, Picked(_)) ==
    LET picked == SelectSeq(cues, Picked)
    IN  [i \in 1..Len(picked) |-> StampedSegment(picked[i])]

\* the timestamp line is there and each of its times is wholly a time
WellFormedCue(cue) == cue.time \notin BadStamps

\* C15 as stated: in the VTT and SRT parsers a block whose timestamp line
\* is missing or fails the timestamp grammar contributes no segment and
\* raises no error, and every other well-formed block of the text still
\* contributes its segment, in input order.
C15_MalformedBlocksAreSkipped ==
    (fpc = "parsed" /\ as_format \in {"VTT", "SRT"}) =>
        built = SegmentsOf(shape.parts, WellFormedCue)

\* the block has no timestamp line, or a time that starts with no time
RejectedCue(cue) == cue.time \in {LineNoStamp, LineBadStamp}

\* the blocks that contribute: the well-formed ones, and the ones whose
\* times only start with a time (0:01x is read as 0:01)
C15_RejectedBlocksAreSkipped ==
    (fpc = "parsed" /\ as_format \in {"VTT", "SRT"}) =>
        /\ Len(built) = Len(SelectSeq(shape.parts, LAMBDA cue : ~RejectedCue(cue)))
        /\ SelectSeq(built, LAMBDA seg : seg.start # 1000 \/ seg.end # 3000)
             = SegmentsOf(shape.parts, LAMBDA cue : cue.time \in {LineCue2, LineSrt2})

\* a block without timestamp line was passed over and the next one parsed
C15_WitnessSkipped ==
    /\ fpc = "parsed"
    /\ as_format = "SRT"
    /\ Len(shape.parts) = 2
    /\ shape.parts[1].time = LineNoStamp
    /\ shape.parts[2].time = LineSrt2
    /\ Len(built) = 1

(***************************************************************************)
(* Properties of parse: cue text                                           *)
(***************************************************************************)
\* C16 as stated: parse strips inline markup from cue text: for every VTT
\* or SRT file whose cue text contains tags such as <b>..</b>, the text of
\* each returned segment has the tags removed and the remaining words
\* unchanged.
C16_MarkupIsStripped ==
    (shape.kind \in {"tagged vtt", "tagged srt"} /\ ppc \in {"returned", "loaded"}) =>
        \A i \in 1..Len(parsed) : parsed[i].text = TextHi

\* what parse returns for such a file: the text lines as they are in the
\* file, whenever the primary path found the segments
C16_MarkupIsKeptByThePrimaryPath ==
    (shape.kind \in {"tagged vtt", "tagged srt"} /\ ppc \in {"returned", "loaded"}
        /\ Len(route) = 1 /\ detected.format \in {"VTT", "SRT"}) =>
        /\ Len(parsed) = Len(shape.parts)
        /\ \A i \in 1..Len(parsed) : parsed[i].text = TextTagged

(***************************************************************************)
(* Properties of the time parsers.  Values are in milliseconds.            *)
(***************************************************************************)
\* tokens of the three shapes and their values
ClockExamples ==
    { <<<<"0", "1", ":", "2", "3", ":", "4", "5", ".", "6", "7", "8">>, 5025678>>,
      <<<<"1", "2", ":", "3", "4", ".", "5", "6", "7">>, 754567>>,
      <<<<"4", "5", ".", "1", "2", "3">>, 45123>>,
      <<<<"3", "0">>, 30000>>,
      <<<<"1", ":", "3", "0", ".", "5">>, 90500>>,
      <<<<"1", ":", "3", "0">>, 90000>>,
      <<<<"5">>, 5000>> }

\* C17: _time_to_seconds returns H*3600 + M*60 + S.mmm for 'H:MM:SS.mmm',
\* M*60 + S.mmm for 'M:SS.mmm' and the number itself for a colon-free
\* decimal (01:23:45.678 is 5025.678 s, 12:34.567 is 754.567 s, 45.123 is
\* 45.123 s, 30 is 30 s), and fails with ValueError on the empty string.
C17_ClockValues ==
    tpc = "done" =>
        /\ \A e \in ClockExamples : token = e[1] => timed.legacy = Ok(e[2])
        /\ token = <<>> => timed.legacy = ValueError

\* 01:23:45.678 was converted to 5025.678 s
C17_Witness ==
    /\ tpc = "done"
    /\ token = <<"0", "1", ":", "2", "3", ":", "4", "5", ".", "6", "7", "8">>
    /\ timed.legacy = Ok(5025678)

\* the empty string was refused
C17_WitnessEmpty ==
    /\ tpc = "done"
    /\ token = <<>>
    /\ timed.legacy = ValueError

\* tokens with and without fraction, after '.' and after ',', and their values
FractionExamples ==
    { <<<<"1", ":", "3", "0", ".", "5">>, 90500>>,
      <<<<"1", ":", "3", "0", ".", "5", "0", "0">>, 90500>>,
      <<<<"1", ":", "3", "0">>, 90000>>,
      <<<<"0", "0", ":", "0", "0", ":", "0", "1", ",", "5", "0">>, 1500>>,
      <<<<"0", "0", ":", "0", "0", ":", "0", "1", ",", "5", "0", "0">>, 1500>> }

\* C18 as stated: in _parse_time_string the fractional part is optional,
\* may follow '.' or ',', and when present with one to three digits is
\* right-padded to millisecond precision: '1:30.5' is 90.5 s and
\* '00:00:01,50' is 1.5 s, the same values as '1:30.500' and '00:00:01,500'.
C18_FractionIsRightPadded ==
    tpc = "done" =>
        \A e \in FractionExamples : token = e[1] => timed.primary = Ok(e[2])

\* what _parse_time_string makes of these tokens: the digits of the
\* fraction are read as a count of milliseconds, 5 as 0.005 s, 50 as 0.050 s
C18_FractionIsACountOfMilliseconds ==
    tpc = "done" =>
        /\ token = <<"1", ":", "3", "0", ".", "5">> => timed.primary = Ok(90005)
        /\ token = <<"1", ":", "3", "0", ".", "5", "0", "0">> => timed.primary = Ok(90500)
        /\ token = <<"1", ":", "3", "0">> => timed.primary = Ok(90000)
        /\ token = <<"0", "0", ":", "0", "0", ":", "0", "1", ",", "5", "0">> => timed.primary = Ok(1050)
        /\ token = <<"0", "0", ":", "0", "0", ":", "0", "1", ",", "5", "0", "0">> => timed.primary = Ok(1500)

\* a token with a time of an accepted shape and nothing but blanks around it
WellShaped ==
    {before \o body \o after :
        before \in {<<>>, <<" ">>}, body \in TimeBodies, after \in {<<>>, <<" ">>}}

\* C19 as stated: _time_to_seconds and _parse_time_string fail on every
\* token that is empty, negative (e.g. '-5', '-1:30'), or not wholly one
\* of the accepted shapes (e.g. trailing non-numeric characters); they
\* never return a negative number of seconds.
C19_MalformedTokensFail ==
    tpc = "done" =>
        /\ token \notin WellShaped => (~timed.legacy.ok /\ ~timed.primary.ok)
        /\ timed.legacy.ok => timed.legacy.v >= 0
        /\ timed.primary.ok => timed.primary.v >= 0

\* what holds of both parsers: the empty and the blank token, a token with
\* a colon too many and one that starts with a letter are refused
C19_EmptyAndShapelessTokensFail ==
    (/\ tpc = "done"
     /\ Strip(token) = <<>> \/ CountChar(token, ":") > 2 \/ Strip(token)[1] = "x") =>
        ~timed.legacy.ok /\ ~timed.primary.ok

(***************************************************************************)
(* Properties of the YouTube copy-paste parser                             *)
(***************************************************************************)
\* the non-empty lines of the text at hand, stripped
TextLines == SelectSeq([i \in 1..Len(shape.parts) |-> Strip(shape.parts[i])], LAMBDA l : l # <<>>)

\* among them, the positions of the timestamp-prefixed ones
Stamped == {i \in 1..Len(TextLines) : MatchesYoutube(TextLines[i])}

\* the time that prefixes such a line, in milliseconds
StampOf(line) ==
    IF line = LineYoutube2 THEN 15000 ELSE IF line = LineYoutubeMs THEN 30000 ELSE 0

\* the k-th smallest member of a set of numbers
Nth(S, k) == CHOOSE i \in S : Cardinality({j \in S : j < i}) = k - 1

\* C20 as stated: for each timestamp-prefixed line the YouTube parser sets
\* end = the start time of the next timestamp-prefixed line of the text
\* (lines in between that do not match are passed over), and
\* end = start + 3.0 s only when no timestamp-prefixed line follows.
C20_EndIsNextStampedLine ==
    (fpc = "parsed" /\ as_format = "YOUTUBE_COPY_PASTE") =>
        /\ Len(built) = Cardinality(Stamped)
        /\ \A k \in 1..Len(built) :
              /\ built[k].start = StampOf(TextLines[Nth(Stamped, k)])
              /\ built[k].end = IF k < Len(built)
                                THEN StampOf(TextLines[Nth(Stamped, k + 1)])
                                ELSE built[k].start + 3000

\* what the parser does, the timestamps being of minutes and seconds: end =
\* the start time of the line right after, if that line is timestamp-prefixed,
\* and start + 3.0 s otherwise
C20_EndIsTheLineRightAfter ==
    (/\ fpc = "parsed"
     /\ as_format = "YOUTUBE_COPY_PASTE"
     /\ \A i \in 1..Len(TextLines) : TextLines[i] # LineYoutubeMs) =>
        /\ Len(built) = Cardinality(Stamped)
        /\ \A k \in 1..Len(built) :
              /\ built[k].start = StampOf(TextLines[Nth(Stamped, k)])
              /\ built[k].end = IF Nth(Stamped, k) + 1 \in Stamped
                                THEN StampOf(TextLines[Nth(Stamped, k) + 1])
                                ELSE built[k].start + 3000

\* the text behind the timestamp of a timestamp-prefixed line
RestOf(line) == Strip(SubSeq(line, IndexOf(line, " ", 1), Len(line)))

\* C25: the YouTube parser returns exactly one segment for each non-empty
\* line that matches a timestamp-prefix pattern (the lines the detector
\* counts), in line order, with start = the parsed timestamp and text = the
\* remainder of the line, whatever the neighbouring lines are.
C25_OneSegmentPerStampedLine ==
    (fpc = "parsed" /\ as_format = "YOUTUBE_COPY_PASTE") =>
        /\ Len(built) = Cardinality(Stamped)
        /\ \A k \in 1..Len(built) :
              /\ built[k].start = StampOf(TextLines[Nth(Stamped, k)])
              /\ built[k].text = RestOf(TextLines[Nth(Stamped, k)])

\* the timestamp-prefixed lines that yield a segment: those with a timestamp
\* of minutes and seconds that no line with a millisecond timestamp follows
Yielding ==
    {i \in Stamped :
        /\ TextLines[i] # LineYoutubeMs
        /\ i + 1 <= Len(TextLines) => TextLines[i + 1] # LineYoutubeMs}

\* what holds of C25: a line with a millisecond timestamp yields no segment
\* and takes the segment of the line before it away
C25_MillisecondStampsYieldNothing ==
    (fpc = "parsed" /\ as_format = "YOUTUBE_COPY_PASTE") =>
        /\ Len(built) = Cardinality(Yielding)
        /\ \A k \in 1..Len(built) :
              /\ built[k].start = StampOf(TextLines[Nth(Yielding, k)])
              /\ built[k].text = RestOf(TextLines[Nth(Yielding, k)])

(***************************************************************************)
(* Properties of the JSON parser                                           *)
(***************************************************************************)
\* a value that float() takes: a number, or a string that reads as one
IsNumeric(value) == value.t = "num" \/ (value.t = "str" /\ FloatOf(value.s).ok)

NumberOf(value) == IF value.t = "num" THEN value.ms ELSE FloatOf(value.s).v

\* the element is an object whose first start key holds a number, whose first
\* text key holds a text, and whose first end key, if it has one, holds a number
Resolvable(item) ==
    /\ item.t = "dict"
    /\ FirstField(item.d, StartFields) # ""
    /\ IsNumeric(item.d[FirstField(item.d, StartFields)])
    /\ FirstField(item.d, TextFields) # ""
    /\ item.d[FirstField(item.d, TextFields)].s # <<>>
    /\ FirstField(item.d, EndFields) # "" => IsNumeric(item.d[FirstField(item.d, EndFields)])

ItemEnd(d, start, key) ==
    IF key = "" THEN start + 3000
    ELSE IF key = "duration" THEN start + NumberOf(d[key])
    ELSE NumberOf(d[key])

\* the segment of a resolvable element
ItemSegment(d, start) ==
    TranscriptSegment(start, ItemEnd(d, start, FirstField(d, EndFields)),
                      d[FirstField(d, TextFields)].s)

ItemSegments(items) ==
    Flatten([i \in 1..Len(items) |->
        IF Resolvable(items[i])
        THEN <<ItemSegment(items[i].d, NumberOf(items[i].d[FirstField(items[i].d, StartFields)]))>>
        ELSE <<>>])

\* a written array has been parsed as JSON
ParsedJson == fpc = "parsed" /\ as_format = "JSON_TIMESTAMPS" /\ shape.kind = "written"

\* C21: every element of a JSON array that is an object with a resolvable
\* start and text yields one segment: start from the first present of start,
\* begin, time, timestamp; end from the first present of end, stop (absolute)
\* or duration (added to start), start + 3.0 without any; text from the
\* first present of text, content, subtitle, caption.
C21_JsonFieldsMapToSegments ==
    ParsedJson =>
        \A i \in 1..Len(shape.parts) :
            Resolvable(shape.parts[i]) =>
                \E j \in 1..Len(built) : built[j] = ItemSegments(<<shape.parts[i]>>)[1]

\* no value of a start, end or duration key fails to convert
Converts(item) ==
    item.t = "dict" =>
        /\ FirstField(item.d, StartFields) # "" => IsNumeric(item.d[FirstField(item.d, StartFields)])
        /\ FirstField(item.d, EndFields) # "" => IsNumeric(item.d[FirstField(item.d, EndFields)])

\* what holds of C21: in an array all of whose time values convert, the
\* segments are those of the resolvable elements, in order
C21_FieldsMapWhenEveryValueConverts ==
    (ParsedJson /\ \A i \in 1..Len(shape.parts) : Converts(shape.parts[i]))
        => built = ItemSegments(shape.parts)

\* C26: a failure is local to its element: an element that cannot yield a
\* segment is skipped on its own, and every other element with a resolvable
\* start and text still yields its segment.
C26_JsonFailureIsLocal ==
    ParsedJson => built = ItemSegments(shape.parts)

\* what holds of C26: elements that are no objects or lack a start or a text
\* are skipped on their own; one value that does not convert empties the result
C26_OneFailedValueEmptiesTheResult ==
    ParsedJson =>
        built = IF \A i \in 1..Len(shape.parts) : Converts(shape.parts[i])
                THEN ItemSegments(shape.parts) ELSE <<>>

VttScore(text, timestamps, count) ==
    QMin(One, QAdd(IF StartsWith(Strip(text), WEBVTT) THEN Q(4, 10) ELSE Zero,
                   QMul(Q(6, 10), Q(timestamps, count))))

C23_WitnessFull ==
    /\ dpc = "done"
    /\ measure.timestamps = measure.count
    /\ detected = Result("VTT", One)

\* 0.2 and 0.3 for the number and timestamp line of each block, 0.4 times
\* min(blocks / 2, 1), 1.0 at most
SrtScore(blocks) ==
    QMin(One, QAdd(QAdd(QMul(Q(2, 10), Q(blocks, 1)), QMul(Q(3, 10), Q(blocks, 1))),
                   QMul(Q(4, 10), QMin(Q(blocks, 2), One))))

\* C24: the SRT confidence is accumulated over all blocks of the text: 0.2
\* for each sequence-number line, 0.3 for each timestamp line, plus
\* 0.4 * min(complete blocks / 2, 1), 1.0 at most; one well-formed block
\* scores 0.7, two or more score 1.0.
C24_SrtConfidenceOverAllBlocks ==
    (dpc = "done" /\ shape.kind = "srt") =>
        /\ measure.srt = SrtScore(Len(shape.parts))
        /\ Len(shape.parts) = 1 => measure.srt = Q(7, 10)
        /\ Len(shape.parts) >= 2 => measure.srt = One

\* what holds of C24: only the first block is scored, the lines handed to the
\* check having no empty line that would end it; any number of well-formed
\* blocks scores 0.7
C24_OnlyTheFirstBlockIsScored ==
    (dpc = "done" /\ shape.kind = "srt") =>
        /\ measure.srt = SrtScore(1)
        /\ detected = Result("SRT", Q(7, 10))

\* two well-formed blocks scored 0.7
C24_WitnessTwoBlocks ==
    /\ dpc = "done"
    /\ shape.kind = "srt"
    /\ Len(shape.parts) = 2
    /\ measure.srt = Q(7, 10)

(***************************************************************************)
(* Properties of reading the file                                          *)
(***************************************************************************)
\* C27: if the file cannot be read at all (every attempt to open it fails
\* with an error that is no decoding error),
\* _read_file_with_encoding_detection fails with its own ValueError; it
\* neither returns a string nor lets the underlying error escape unwrapped.
C27_UnreadableFileRaisesValueError ==
    (reading # <<>> /\ ~file.readable) => reading = ValueError

\* what holds of C27: the error of the first open() leaves the function as it is
C27_TheOpenErrorEscapes ==
    (reading # <<>> /\ ~file.readable) => reading = OSError

\* the primary path has tried to read a file that cannot be opened
C27_WitnessUnreadable ==
    /\ ppc = "fallback"
    /\ file.exists
    /\ ~file.readable
    /\ reading = OSError

(***************************************************************************)
(* Properties of the plain-text parser                                     *)
(***************************************************************************)
\* how many sentences a text has: one if it has any ink, and one more for
\* each sentence end with whitespace behind it that ink follows
SentenceCount(s) ==
    (IF Strip(s) = <<>> THEN 0 ELSE 1)
    + Cardinality({i \in 1..(Len(s) - 1) :
          /\ s[i] \in SentenceEnd
          /\ IsSpace(s[i + 1])
          /\ \E j \in (i + 1)..Len(s) : ~IsSpace(s[j])})

\* how many words a text has: the places where a word ends
Words(s) ==
    Cardinality({i \in 1..Len(s) : ~IsSpace(s[i]) /\ (i = Len(s) \/ IsSpace(s[i + 1]))})

\* C28: the plain-text parser returns one segment per non-empty sentence, in
\* order, the first starting at 0, every later one at the end of the one
\* before, each lasting max(0.5 * word count, 1.0) s; so starts strictly
\* increase and every segment has end > start.
C28_PlainTextTiming ==
    (fpc = "parsed" /\ as_format = "PLAIN_TEXT") =>
        /\ Len(built) = SentenceCount(content)
        /\ [k \in 1..Len(built) |-> built[k].text]
              = SelectSeq([i \in 1..Len(Sentences(content)) |-> Strip(Sentences(content)[i])],
                          LAMBDA sentence : sentence # <<>>)
        /\ \A k \in 1..Len(built) :
              /\ built[k].start = IF k = 1 THEN 0 ELSE built[k - 1].end
              /\ built[k].end - built[k].start
                    = IF Words(built[k].text) * 500 > 1000
                      THEN Words(built[k].text) * 500 ELSE 1000
              /\ built[k].end > built[k].start
              /\ k > 1 => built[k].start > built[k - 1].start

\* a sentence of one word lasting 1.0 s, then one of five words lasting 2.5 s
C28_Witness ==
    /\ fpc = "parsed"
    /\ as_format = "PLAIN_TEXT"
    /\ \E k \in 1..(Len(built) - 1) :
           /\ built[k].end - built[k].start = 1000
           /\ built[k + 1].start = built[k].end
           /\ built[k + 1].end - built[k + 1].start = 2500

C29_WitnessSrt ==
    /\ ppc = "returned"
    /\ file.suffix = ".SRT"
    /\ shape.kind = "free"
    /\ detected.format = "PLAIN_TEXT"
    /\ route = <<"_parse_with_formatter">>
    /\ parsed # <<>>

(***************************************************************************)
(* Properties of the two WebVTT parsers                                    *)
(***************************************************************************)
\* C30: on a WebVTT text that starts with the header block and whose cues
\* have well-formed HH:MM:SS.mmm times and plain text, _parse_vtt_segments
\* and _parse_vtt return the same sequence of (start, end, text) segments.
C30_VttParsersAgree == epc = "done" => both.primary = both.legacy

SameTime(a, b) == a.ms = b.ms /\ (a.ms % 1000 = 0 => a.double = b.double)

\* C30, as it holds: on such a text the two parsers return as many segments,
\* one for each cue; the texts are the same, each start and each end stands
\* for the same millisecond, and a time of whole seconds is the same float.
C30_SameTextsAndMilliseconds ==
    epc = "done" =>
        /\ Len(both.primary) = Len(shape.parts)
        /\ Len(both.legacy) = Len(shape.parts)
        /\ \A k \in 1..Len(shape.parts) :
               /\ both.primary[k].text = both.legacy[k].text
               /\ both.primary[k].text = JoinSpace(CueText(shape.parts[k].n))
               /\ SameTime(both.primary[k].start, both.legacy[k].start)
               /\ SameTime(both.primary[k].end, both.legacy[k].end)

\* a header block with a metadata line, a cue of two text lines that starts
\* at 1.118 s, which is 1.1179999999999999 from the one parser and 1.118 from
\* the other, and a cue with cue settings behind its end time
C30_Witness ==
    /\ epc = "done"
    /\ shape.meta = 1
    /\ Len(both.primary) = 2
    /\ shape.parts[1] = [time |-> LineCueMs, n |-> 2, id |-> FALSE]
    /\ shape.parts[2].time = LineCueSet
    /\ both.primary[1].start.ms = 1118
    /\ both.primary[1].start.double # both.legacy[1].start.double
    /\ both.primary[2].end = both.legacy[2].end

====
